---- MODULE Spec2Model ----
(***************************************************************************)
(* ClawRouter: the chat-completion request lifecycle of proxyRequest       *)
(* (src/proxy.ts as bundled in src/unnamed/part_001), the payment fetch    *)
(* (src/x402.ts) and the response cache (src/response-cache.ts), modelled  *)
(* as state machines over one set of variables.                            *)
(*                                                                         *)
(*   Spec           concurrent non-streaming requests with one body and    *)
(*                  the RequestDeduplicator (src/dedup.ts): registration,  *)
(*                  waiting, completion, removal, the close listener.      *)
(*   SpecFallback   one request, of any input, through the balance check,  *)
(*                  the candidate list and the fallback loop.              *)
(*   SpecRateLimit  successive routed requests with the rate-limit map     *)
(*                  and a clock.                                           *)
(*   SpecPay        successive payFetch calls for one endpoint path, with  *)
(*                  the PaymentCache entry of that path.                   *)
(*   SpecCache      a ResponseCache of any configuration under set, get,   *)
(*                  clear and a clock.                                     *)
(*   SpecProxyCache chat-completion requests through the proxy's lookup    *)
(*                  in, and store into, the response cache.                *)
(*   SpecStream     one stream:true request: SSE head, heartbeat ticker,   *)
(*                  close listener, timeout, fallback loop, error event.   *)
(*   SpecShutdown   Spec together with the proxy's close().                *)
(*   SpecBalance    concurrent requests against the BalanceMonitor: the    *)
(*                  cached balance, RPC reads, deduction, invalidation.    *)
(*   SpecSession    profile-routed requests with the SessionStore and a    *)
(*                  clock.                                                 *)
(*   SpecFormat     Spec with streaming and non-streaming requests mixed.  *)
(*   SpecListen     startProxy binding its port: the health pre-check and  *)
(*                  the listen retry loop.                                 *)
(*   SpecAlias      resolveModelAlias applied to a model string.           *)
(*   SpecCanon      the dedup key: timestamps stripped, keys sorted.       *)
(*   SpecSavings    selectModel: cost estimate, baseline and savings.      *)
(*                                                                         *)
(* A step of any machine is one run of the handler between two awaits      *)
(* (Node runs such a segment, and the microtasks it queues, atomically).   *)
(***************************************************************************)
EXTENDS Integers, Sequences, FiniteSets, TLC

VARIABLES
    \* ---- Spec: dedup lifecycle ----
    bodyModel,      \* the model the shared body names: "paid" or "free" (FREE_MODEL)
    pc,             \* per request: position of its handler
    inflight,       \* RequestDeduplicator.inflight, the entry of the key
    completed,      \* RequestDeduplicator.completed, the entry of the key
    closeState,     \* per request: connection open / close listener armed / closed
    completedFlag,  \* per request: the handler's local `completed`
    issued,         \* per request: it has called tryModelRequest at least once
    resp,           \* per request: what the handler wrote with res.end
    delivered,      \* per request: the connection was open when res.end ran
    joined,         \* history: the owner of the entry found on arrival (0: none)
    joinedLive,     \* history: that owner's handler was still running
    wokenBy,        \* history: the request whose call resolved a waiter
    dedupCall,      \* history: the deduplicator call of the last step, its waiters
    shutdown,       \* close() has run
    isStreaming,    \* per request: its body had stream: true
    \* ---- SpecFallback, SpecRateLimit: balance check, candidates, fallback loop ----
    fpc,            \* position of the handler
    req,            \* the request being handled (its parsed inputs)
    modelId,        \* the handler's local modelId
    downgraded,     \* the balance check rewrote the model to FREE_MODEL
    modelsToTry,    \* the candidate list
    idx,            \* loop index i (1-based) of the attempt in flight
    calls,          \* models of the upstream requests sent, in order
    allProvider,    \* history: every failed attempt so far was a provider error
    upstreamOk,     \* an attempt succeeded
    clientStatus,   \* status sent to the client (0: nothing sent yet)
    rateLimitedModels, \* model -> hit time (0: no entry)
    now,            \* Date.now()
    runs,           \* number of requests started
    finalOutcome,   \* history: the upstream outcome of the attempt that ended the loop
    markedAt,       \* history: model -> time of its latest markRateLimited
    limitedAtBuild, \* history: models marked less than 60 s before the list was built
    aborted,        \* controller.signal.aborted of the request in hand
    startedAborted, \* the signal was already aborted when the attempt in flight began
    \* ---- SpecPay: payFetch calls for one endpoint path ----
    ppc,            \* position of the call: idle, first, clean, retry, done
    payPath,        \* "preauth" or "normal" (none before the first call)
    paymentCache,   \* PaymentCache entry of the endpoint path
    sent,           \* the HTTP requests the call in hand has issued, in order
    replies,        \* the responses it has received, in order
    nonceCtr,       \* number of nonces created so far
    nonceBase,      \* history: nonceCtr when the call in hand began
    payResult,      \* what the call returned or threw
    payCalls,       \* number of calls started
    \* ---- SpecCache: the response cache and the proxy's use of it ----
    config,         \* ResponseCache config: maxSize, enabled
    cache,          \* key -> stored response (the Map)
    expirationHeap, \* sequence of (expiresAt, key)
    cnow,           \* Date.now(), in seconds
    pending,        \* the proxied request that missed and awaits its upstream
    lastLookup,     \* history: what the last step's lookup returned
    lastEvict,      \* history: what the last step's set found and evicted
    latest,         \* history: per key, the latest direct set not cleared or evicted since
    \* ---- SpecStream: one stream:true request past the cache and dedup ----
    spc,            \* position of the handler: idle, balance, attempting, reading, done
    sconn,          \* the client's connection is open
    closeListener,  \* the "close" listener is registered on the response
    heartbeatInterval, \* the heartbeat ticker is running
    sHeaders,       \* response head written: none, sse, json
    sEnded,         \* res.end() was called (writableEnded)
    out,            \* what has been written to the open connection, in order
    sAborted,       \* the request timeout aborted the controller
    sLeft,          \* candidates not yet tried
    hbTicks,        \* ticks of the heartbeat ticker so far
    sResult,        \* how the handler ended: none, success, failure
    sAttempts,      \* history: upstream attempts started
    lenAtClose,     \* history: length of out when the connection closed (-1: open)
    \* ---- SpecBalance: requests against the BalanceMonitor ----
    bpc,            \* per request: idle, fetching, attempt, done
    estimatedCostMicros, \* per request: the estimate (NoEstimate: undefined)
    onPaid,         \* per request: the model in hand is a paid one
    fetchStart,     \* per request: "now" captured by its checkBalance call
    fetchRead,      \* per request: history, number of the RPC read it awaits
    cachedBalance,  \* BalanceMonitor.cachedBalance (NullBalance: null)
    cachedAt,       \* BalanceMonitor.cachedAt
    bnow,           \* Date.now(), in milliseconds
    readCtr,        \* history: RPC reads issued so far
    cachedRead,     \* history: the read that produced cachedBalance (0: none)
    invalMark,      \* history: readCtr at the last invalidate()
    pendingInval,   \* history: no checkBalance() call since the last invalidate()
    lastCheck,      \* history: the checkBalance() call of the last step
    lastFinish,     \* history: the request that ended in the last step
    \* ---- SpecSession: profile-routed requests and the SessionStore ----
    sessEnabled,    \* SessionStore config.enabled
    sessions,       \* session id -> entry (the Map)
    snow,           \* Date.now(), in milliseconds
    lastRoute,      \* history: the request routed in the last step
    \* ---- SpecListen: startProxy binding its port ----
    lpc,            \* position of startProxy: precheck, listen, probe, wait, done
    attempt,        \* the loop variable of the listen retry loop
    listens,        \* history: outcome of every server.listen call, in order
    probes,         \* history: every /health response seen, in order
    waits,          \* history: retry delays slept
    listenError,    \* the loop's lastError (NoError: undefined)
    lResult,        \* what startProxy returned or threw
    \* ---- the pure functions: one input, the function applied to it ----
    arg,            \* the input drawn
    applied,        \* the function has been applied
    returned        \* what it returned

dedupVars == <<bodyModel, pc, inflight, completed, closeState, completedFlag,
               issued, resp, delivered, joined, joinedLive, wokenBy, dedupCall,
               shutdown, isStreaming>>
fbVars == <<fpc, req, modelId, downgraded, modelsToTry, idx, calls, allProvider,
            upstreamOk, clientStatus, rateLimitedModels, now, runs, finalOutcome,
            markedAt, limitedAtBuild, aborted, startedAborted>>
payVars == <<ppc, payPath, paymentCache, sent, replies, nonceCtr, nonceBase, payResult,
             payCalls>>
cacheVars ==
    <<config, cache, expirationHeap, cnow, pending, lastLookup, lastEvict, latest>>
streamVars ==
    <<spc, sconn, closeListener, heartbeatInterval, sHeaders, sEnded, out, sAborted,
      sLeft, hbTicks, sResult, sAttempts, lenAtClose>>
balVars ==
    <<bpc, estimatedCostMicros, onPaid, fetchStart, fetchRead, cachedBalance, cachedAt,
      bnow, readCtr, cachedRead, invalMark, pendingInval, lastCheck, lastFinish>>
sessVars == <<sessEnabled, sessions, snow, lastRoute>>
listenVars == <<lpc, attempt, listens, probes, waits, listenError, lResult>>
pureVars == <<arg, applied, returned>>
lateVars == <<listenVars, pureVars>>
extraVars == <<balVars, sessVars, lateVars>>
earlyVars == <<dedupVars, fbVars, payVars, cacheVars, streamVars, balVars, sessVars>>
otherVars == <<payVars, cacheVars, streamVars, extraVars>>
vars == <<dedupVars, fbVars, otherVars>>

(***************************************************************************)
(* Part 1.  Request deduplication (Spec)                                   *)
(*                                                                         *)
(* All requests carry the same body, hence the same dedup key: inflight    *)
(* and completed are the two maps' entries for that key.                   *)
(***************************************************************************)

\* Number of concurrent requests.
NumReqs == 3
Reqs == 1..NumReqs

\* delivered: the client's connection was open when res.end ran.
NoResult == [status |-> 0, kind |-> "none", of |-> 0]

\* removeInflight's reply to the waiters.
DedupOriginFailed == [status |-> 503, kind |-> "dedup_origin_failed", of |-> 0]

\* The server callback's catch with no header sent yet: 502 proxy_error.
ProxyError(r) == [status |-> 502, kind |-> "proxy_error", of |-> r]

\* The server callback's catch after writeHead(upstream.status): the chunks
\* already written, then the proxy_error event, under the upstream status.
TruncatedResponse(r) == [status |-> 200, kind |-> "truncated", of |-> r]

\* The error branch of proxyRequest: lastError.status and the error body, or
\* for a streaming request the error event under the 200 already sent.
UpstreamError(r) ==
    [status |-> IF isStreaming[r] THEN 200 ELSE 500, kind |-> "upstream_error", of |-> r]

\* The success branch: the upstream status (200) and the body read for r.
UpstreamSuccess(r) == [status |-> 200, kind |-> "completion", of |-> r]

NoEntry == [present |-> FALSE, resolvers |-> {}, owner |-> 0]
NoCompleted == [present |-> FALSE, result |-> NoResult, expired |-> FALSE]
NoCall == [kind |-> "none", waiters |-> {}]

\* The deduplicator and the requests, whatever their stream flags.
InitRequests ==
    /\ bodyModel \in {"paid", "free"}
    /\ pc = [r \in Reqs |-> "idle"]
    /\ inflight = NoEntry
    /\ completed = NoCompleted
    /\ closeState = [r \in Reqs |-> "open"]
    /\ completedFlag = [r \in Reqs |-> FALSE]
    /\ issued = [r \in Reqs |-> FALSE]
    /\ resp = [r \in Reqs |-> NoResult]
    /\ delivered = [r \in Reqs |-> FALSE]
    /\ joined = [r \in Reqs |-> 0]
    /\ joinedLive = [r \in Reqs |-> FALSE]
    /\ wokenBy = [r \in Reqs |-> 0]
    /\ dedupCall = NoCall
    /\ shutdown = FALSE

\* Every request is a non-streaming one.
InitDedup == InitRequests /\ isStreaming = [r \in Reqs |-> FALSE]

\* Requests with the same messages, each with or without stream: true: the
\* flag is read into isStreaming and forced to false before the body is
\* hashed, so the requests still share one dedup key.
InitFormat == InitRequests /\ isStreaming \in [Reqs -> BOOLEAN]

\* The Content-Type of a result as published: the originator of a
\* completion or of an upstream error sends an event stream to a streaming
\* client and the JSON body otherwise; the other replies are JSON.
EventStream == "text/event-stream"
Json == "application/json"
ContentType(result) ==
    IF result.kind \in {"completion", "upstream_error"} /\ isStreaming[result.of]
    THEN EventStream
    ELSE Json

Active(r) == pc[r] \notin {"idle", "done"}

\* getCached(key): the entry if present and within the TTL.
getCached == completed.present /\ ~completed.expired

\* getCached's side effect: an expired entry is deleted on read.
AfterGetCached ==
    IF completed.present /\ completed.expired THEN NoCompleted ELSE completed

\* A lookup that never finds an entry.
getInflight_Never == FALSE

\* getInflight(key): there is an entry to wait on.
getInflight == inflight.present

\* prune(): drop the entry if it has expired.
prune(c) == IF c.present /\ c.expired THEN NoCompleted ELSE c

\* The waiters of the entry, each resolved with `result` by request `by`: the
\* continuation after `await inflight` writes the result and returns.
Resolved(f, value) == [w \in Reqs |-> IF w \in inflight.resolvers THEN value ELSE f[w]]
ResolvedDelivered(d) ==
    [w \in Reqs |-> IF w \in inflight.resolvers THEN closeState[w] # "closed" ELSE d[w]]

\* complete(key, result) called by request `by`; `store` is body.length <=
\* MAX_BODY_SIZE.  p, rs and d are pc, resp and delivered as the caller has
\* already set them.
complete(result, by, store, p, rs, d) ==
    /\ completed' = prune(IF store
                          THEN [present |-> TRUE, result |-> result, expired |-> FALSE]
                          ELSE completed)
    /\ inflight' = NoEntry
    /\ pc' = Resolved(p, "done")
    /\ resp' = Resolved(rs, result)
    /\ delivered' = ResolvedDelivered(d)
    /\ wokenBy' = Resolved(wokenBy, by)
    /\ dedupCall' = [kind |-> "complete", waiters |-> inflight.resolvers]

\* A removal that deletes the entry and leaves its waiters pending.
removeInflight_KeepWaiters(by, p, rs, d) ==
    /\ inflight' = NoEntry
    /\ pc' = p
    /\ resp' = rs
    /\ delivered' = d
    /\ wokenBy' = wokenBy
    /\ dedupCall' = [kind |-> "removeInflight", waiters |-> inflight.resolvers]

\* removeInflight(key) called by request `by`.
removeInflight(by, p, rs, d) ==
    /\ inflight' = NoEntry
    /\ pc' = Resolved(p, "done")
    /\ resp' = Resolved(rs, DedupOriginFailed)
    /\ delivered' = ResolvedDelivered(d)
    /\ wokenBy' = Resolved(wokenBy, by)
    /\ dedupCall' = [kind |-> "removeInflight", waiters |-> inflight.resolvers]

\* res.on("close", ...) is registered; a close event emitted before the
\* registration is never delivered to the listener.
Registered(r) == IF closeState[r] = "open" THEN "armed" ELSE closeState[r]

\* res.end(result) by request r.
Written(r, result) == [resp EXCEPT ![r] = result]
DeliveredTo(r) == [delivered EXCEPT ![r] = closeState[r] # "closed"]
Done(r) == [pc EXCEPT ![r] = "done"]

\* A request arrives: getCached, getInflight, markInflight and, for the free
\* model, straight on to the first upstream attempt.
Arrive(r) ==
    /\ pc[r] = "idle"
    /\ \A q \in Reqs : q < r => pc[q] # "idle"
    /\ completed' = AfterGetCached
    /\ joined' = [joined EXCEPT ![r] =
                    IF ~getCached /\ inflight.present THEN inflight.owner ELSE 0]
    /\ joinedLive' = [joinedLive EXCEPT ![r] =
                        ~getCached /\ inflight.present /\ Active(inflight.owner)]
    /\ IF getCached
       THEN /\ pc' = Done(r)
            /\ resp' = Written(r, completed.result)
            /\ delivered' = DeliveredTo(r)
            /\ UNCHANGED <<inflight, closeState, issued>>
       ELSE IF getInflight
       THEN /\ inflight' = [inflight EXCEPT !.resolvers = @ \cup {r}]
            /\ pc' = [pc EXCEPT ![r] = "waiting"]
            /\ UNCHANGED <<resp, delivered, closeState, issued>>
       ELSE /\ inflight' = [present |-> TRUE, resolvers |-> {}, owner |-> r]
            /\ IF bodyModel = "paid"
               THEN /\ pc' = [pc EXCEPT ![r] = "balance"]
                    /\ UNCHANGED <<closeState, issued>>
               ELSE /\ pc' = [pc EXCEPT ![r] = "upstream"]
                    /\ closeState' = [closeState EXCEPT ![r] = Registered(r)]
                    /\ issued' = [issued EXCEPT ![r] = TRUE]
            /\ UNCHANGED <<resp, delivered>>
    /\ UNCHANGED <<bodyModel, completedFlag, wokenBy>>
    /\ ~shutdown
    /\ dedupCall' = NoCall
    /\ UNCHANGED <<shutdown, isStreaming>>
    /\ UNCHANGED fbVars
    /\ UNCHANGED otherVars

\* balanceMonitor.checkSufficient returns (sufficient, or a downgrade to the
\* free model): the close listener is registered and the loop starts.
BalanceChecked(r) ==
    /\ pc[r] = "balance"
    /\ pc' = [pc EXCEPT ![r] = "upstream"]
    /\ closeState' = [closeState EXCEPT ![r] = Registered(r)]
    /\ issued' = [issued EXCEPT ![r] = TRUE]
    /\ UNCHANGED <<bodyModel, inflight, completed, completedFlag, resp, delivered,
                   joined, joinedLive, wokenBy>>
    /\ dedupCall' = NoCall
    /\ UNCHANGED <<shutdown, isStreaming>>
    /\ UNCHANGED fbVars
    /\ UNCHANGED otherVars

\* balanceMonitor.checkSufficient throws RpcError: the await is outside the
\* try block, so the error leaves proxyRequest and the server callback answers
\* 502 proxy_error.
BalanceThrows(r) ==
    /\ pc[r] = "balance"
    /\ pc' = Done(r)
    /\ resp' = Written(r, ProxyError(r))
    /\ delivered' = DeliveredTo(r)
    /\ UNCHANGED <<bodyModel, inflight, completed, closeState, completedFlag, issued,
                   joined, joinedLive, wokenBy>>
    /\ dedupCall' = NoCall
    /\ UNCHANGED <<shutdown, isStreaming>>
    /\ UNCHANGED fbVars
    /\ UNCHANGED otherVars

\* The fallback loop ends with no successful attempt: the error is written,
\* complete(dedupKey, ...) is called and the handler returns.
RequestFails(r) ==
    /\ pc[r] = "upstream"
    /\ complete(UpstreamError(r), r, TRUE, Done(r), Written(r, UpstreamError(r)),
                DeliveredTo(r))
    /\ UNCHANGED <<bodyModel, closeState, completedFlag, issued, joined, joinedLive>>
    /\ UNCHANGED <<shutdown, isStreaming>>
    /\ UNCHANGED fbVars
    /\ UNCHANGED otherVars

\* An attempt succeeds and the upstream body is read: res.end,
\* complete(dedupKey, ...), completed = true.
RequestSucceeds(r, store) ==
    /\ pc[r] = "upstream"
    /\ complete(UpstreamSuccess(r), r, store, Done(r), Written(r, UpstreamSuccess(r)),
                DeliveredTo(r))
    /\ completedFlag' = [completedFlag EXCEPT ![r] = TRUE]
    /\ UNCHANGED <<bodyModel, closeState, issued, joined, joinedLive>>
    /\ UNCHANGED <<shutdown, isStreaming>>
    /\ UNCHANGED fbVars
    /\ UNCHANGED otherVars

\* An attempt succeeds but reader.read() rejects: the catch block calls
\* removeInflight(dedupKey) and rethrows; the server callback ends the
\* response it finds already started.
UpstreamReadThrows(r) ==
    /\ pc[r] = "upstream"
    /\ removeInflight(r, Done(r), Written(r, TruncatedResponse(r)),
                      DeliveredTo(r))
    /\ UNCHANGED <<bodyModel, completed, closeState, completedFlag, issued, joined,
                   joinedLive>>
    /\ UNCHANGED <<shutdown, isStreaming>>
    /\ UNCHANGED fbVars
    /\ UNCHANGED otherVars

\* The close listener of request r runs: if (!completed) removeInflight(dedupKey).
CloseHandler(r) ==
    IF completedFlag[r]
    THEN UNCHANGED <<inflight, pc, resp, delivered, wokenBy>> /\ dedupCall' = NoCall
    ELSE removeInflight(r, pc, resp, delivered)

\* The client of an unfinished request disconnects.
ClientClose(r) ==
    /\ Active(r)
    /\ closeState[r] # "closed"
    /\ closeState' = [closeState EXCEPT ![r] = "closed"]
    /\ IF closeState[r] = "armed"
       THEN CloseHandler(r)
       ELSE UNCHANGED <<inflight, pc, resp, delivered, wokenBy>> /\ dedupCall' = NoCall
    /\ UNCHANGED <<bodyModel, completed, completedFlag, issued, joined, joinedLive>>
    /\ UNCHANGED <<shutdown, isStreaming>>
    /\ UNCHANGED fbVars
    /\ UNCHANGED otherVars

\* The response of a finished request emits "close".
ResponseClosed(r) ==
    /\ pc[r] = "done"
    /\ closeState[r] = "armed"
    /\ closeState' = [closeState EXCEPT ![r] = "closed"]
    /\ CloseHandler(r)
    /\ UNCHANGED <<bodyModel, completed, completedFlag, issued, joined, joinedLive>>
    /\ UNCHANGED <<shutdown, isStreaming>>
    /\ UNCHANGED fbVars
    /\ UNCHANGED otherVars

\* The TTL (DEFAULT_TTL_MS2, 30 s) of the completed entry elapses.
TtlElapse ==
    /\ completed.present
    /\ ~completed.expired
    /\ completed' = [completed EXCEPT !.expired = TRUE]
    /\ UNCHANGED <<bodyModel, pc, inflight, closeState, completedFlag, issued, resp,
                   delivered, joined, joinedLive, wokenBy>>
    /\ dedupCall' = NoCall
    /\ UNCHANGED <<shutdown, isStreaming>>
    /\ UNCHANGED fbVars
    /\ UNCHANGED otherVars

\* close(): every open socket is destroyed and the server closed.  The
\* close listeners registered by then run, each calling
\* removeInflight(dedupKey) unless its handler had set completed; the
\* deduplicator is not otherwise touched.
Shutdown ==
    /\ ~shutdown
    /\ shutdown' = TRUE
    /\ UNCHANGED isStreaming
    /\ closeState' = [r \in Reqs |-> "closed"]
    /\ IF \E r \in Reqs : closeState[r] = "armed" /\ ~completedFlag[r]
       THEN LET by == CHOOSE r \in Reqs : closeState[r] = "armed" /\ ~completedFlag[r]
            IN  /\ removeInflight(by, pc, resp, delivered)
       ELSE /\ UNCHANGED <<inflight, pc, resp, delivered, wokenBy>>
            /\ dedupCall' = NoCall
    /\ UNCHANGED <<bodyModel, completed, completedFlag, issued, joined, joinedLive>>
    /\ UNCHANGED fbVars
    /\ UNCHANGED otherVars

(***************************************************************************)
(* Part 2.  Balance check, candidate list and fallback loop                *)
(***************************************************************************)

FREE_MODEL == "nvidia/gpt-oss-120b"
MAX_FALLBACK_ATTEMPTS == 5
RATE_LIMIT_COOLDOWN_MS == 60000

\* The registry, id -> contextWindow, for the models the tier tables and the
\* inputs below name.  A model absent from it has no declared context window.
BLOCKRUN_MODELS ==
    [m \in {"openai/gpt-5.2", "openai/gpt-5.2-codex", "openai/gpt-4o",
            "openai/gpt-4o-mini", "openai/o3", "openai/o4-mini",
            "anthropic/claude-haiku-4.5", "anthropic/claude-sonnet-4.6",
            "anthropic/claude-opus-4.6", "google/gemini-3.1-pro-preview",
            "google/gemini-3-pro-preview", "google/gemini-2.5-pro",
            "google/gemini-2.5-flash", "google/gemini-2.5-flash-lite",
            "deepseek/deepseek-chat", "deepseek/deepseek-reasoner",
            "moonshot/kimi-k2.5", "xai/grok-4-1-fast-reasoning",
            "xai/grok-4-1-fast-non-reasoning", "xai/grok-code-fast-1",
            "xai/grok-4-0709", "nvidia/gpt-oss-120b"} |->
        CASE m \in {"google/gemini-3.1-pro-preview", "google/gemini-3-pro-preview",
                    "google/gemini-2.5-pro"} -> 1050000
          [] m \in {"google/gemini-2.5-flash", "google/gemini-2.5-flash-lite"} -> 1000000
          [] m = "openai/gpt-5.2" -> 400000
          [] m = "moonshot/kimi-k2.5" -> 262144
          [] m \in {"openai/o3", "anthropic/claude-haiku-4.5",
                    "anthropic/claude-sonnet-4.6", "anthropic/claude-opus-4.6"} -> 200000
          [] m \in {"xai/grok-4-1-fast-reasoning", "xai/grok-4-1-fast-non-reasoning",
                    "xai/grok-code-fast-1", "xai/grok-4-0709"} -> 131072
          [] OTHER -> 128000]

\* DEFAULT_ROUTING_CONFIG.tiers (the auto profile).
tiers ==
    [SIMPLE |-> [primary |-> "moonshot/kimi-k2.5",
                 fallback |-> <<"google/gemini-2.5-flash-lite", "nvidia/gpt-oss-120b",
                                "deepseek/deepseek-chat">>],
     MEDIUM |-> [primary |-> "xai/grok-code-fast-1",
                 fallback |-> <<"google/gemini-2.5-flash-lite", "deepseek/deepseek-chat",
                                "xai/grok-4-1-fast-non-reasoning">>],
     COMPLEX |-> [primary |-> "google/gemini-3.1-pro-preview",
                  fallback |-> <<"google/gemini-2.5-flash-lite",
                                 "google/gemini-3-pro-preview", "google/gemini-2.5-pro",
                                 "deepseek/deepseek-chat", "xai/grok-4-0709",
                                 "openai/gpt-5.2", "openai/gpt-4o",
                                 "anthropic/claude-sonnet-4.6">>],
     REASONING |-> [primary |-> "xai/grok-4-1-fast-reasoning",
                    fallback |-> <<"deepseek/deepseek-reasoner", "openai/o4-mini",
                                   "openai/o3">>]]

\* DEFAULT_ROUTING_CONFIG.ecoTiers.
ecoTiers ==
    [SIMPLE |-> [primary |-> "nvidia/gpt-oss-120b",
                 fallback |-> <<"google/gemini-2.5-flash-lite", "deepseek/deepseek-chat">>],
     MEDIUM |-> [primary |-> "google/gemini-2.5-flash-lite",
                 fallback |-> <<"deepseek/deepseek-chat", "nvidia/gpt-oss-120b">>],
     COMPLEX |-> [primary |-> "google/gemini-2.5-flash-lite",
                  fallback |-> <<"google/gemini-2.5-flash", "deepseek/deepseek-chat",
                                 "xai/grok-4-0709">>],
     REASONING |-> [primary |-> "xai/grok-4-1-fast-reasoning",
                    fallback |-> <<"deepseek/deepseek-reasoner">>]]

\* DEFAULT_ROUTING_CONFIG.premiumTiers.
premiumTiers ==
    [SIMPLE |-> [primary |-> "moonshot/kimi-k2.5",
                 fallback |-> <<"anthropic/claude-haiku-4.5",
                                "google/gemini-2.5-flash-lite", "xai/grok-code-fast-1">>],
     MEDIUM |-> [primary |-> "openai/gpt-5.2-codex",
                 fallback |-> <<"moonshot/kimi-k2.5", "google/gemini-2.5-pro",
                                "xai/grok-4-0709", "anthropic/claude-sonnet-4.6">>],
     COMPLEX |-> [primary |-> "anthropic/claude-opus-4.6",
                  fallback |-> <<"openai/gpt-5.2-codex", "anthropic/claude-opus-4.6",
                                 "anthropic/claude-sonnet-4.6",
                                 "google/gemini-3.1-pro-preview",
                                 "google/gemini-3-pro-preview", "moonshot/kimi-k2.5">>],
     REASONING |-> [primary |-> "anthropic/claude-sonnet-4.6",
                    fallback |-> <<"anthropic/claude-opus-4.6",
                                   "anthropic/claude-opus-4.6", "openai/o4-mini",
                                   "openai/o3", "xai/grok-4-1-fast-reasoning">>]]

\* DEFAULT_ROUTING_CONFIG.agenticTiers.
agenticTiers ==
    [SIMPLE |-> [primary |-> "moonshot/kimi-k2.5",
                 fallback |-> <<"anthropic/claude-haiku-4.5",
                                "xai/grok-4-1-fast-non-reasoning", "openai/gpt-4o-mini">>],
     MEDIUM |-> [primary |-> "xai/grok-code-fast-1",
                 fallback |-> <<"moonshot/kimi-k2.5", "anthropic/claude-haiku-4.5",
                                "claude-sonnet-4">>],
     COMPLEX |-> [primary |-> "anthropic/claude-sonnet-4.6",
                  fallback |-> <<"anthropic/claude-opus-4.6", "openai/gpt-5.2",
                                 "google/gemini-3.1-pro-preview",
                                 "google/gemini-3-pro-preview", "xai/grok-4-0709">>],
     REASONING |-> [primary |-> "anthropic/claude-sonnet-4.6",
                    fallback |-> <<"anthropic/claude-opus-4.6",
                                   "xai/grok-4-1-fast-reasoning",
                                   "deepseek/deepseek-reasoner">>]]

Tiers == {"SIMPLE", "MEDIUM", "COMPLEX", "REASONING"}

\* getFallbackChain(tier, tierConfigs): [primary, ...fallback].
getFallbackChain(tier, tierConfigs) ==
    <<tierConfigs[tier].primary>> \o tierConfigs[tier].fallback

\* getModelContextWindow(modelId): the declared window, 0 for undefined.
getModelContextWindow(m) ==
    IF m \in DOMAIN BLOCKRUN_MODELS THEN BLOCKRUN_MODELS[m] ELSE 0

\* A filter without the 10 % margin.
FitsContext_NoMargin(m, estimatedTotalTokens) ==
    \/ getModelContextWindow(m) = 0
    \/ getModelContextWindow(m) >= estimatedTotalTokens

\* The filter's predicate: an undeclared window passes; a declared one passes
\* when contextWindow >= estimatedTotalTokens * 1.1 (no declared window is a
\* multiple of 11, so the comparison is exact in integers).
FitsContext(m, estimatedTotalTokens) ==
    \/ getModelContextWindow(m) = 0
    \/ 10 * getModelContextWindow(m) >= 11 * estimatedTotalTokens

\* getFallbackChainFiltered(tier, tierConfigs, estimatedTotalTokens,
\* getContextWindow): the filtered chain, or the full chain if nothing passes.
getFallbackChainFiltered(tier, tierConfigs, estimatedTotalTokens) ==
    LET fullChain == getFallbackChain(tier, tierConfigs)
        Keep(m) == FitsContext(m, estimatedTotalTokens)
        filtered == SelectSeq(fullChain, Keep)
    IN  IF Len(filtered) = 0 THEN fullChain ELSE filtered

\* Array.prototype.slice(0, n).
Slice(seq, n) == SubSeq(seq, 1, IF Len(seq) < n THEN Len(seq) ELSE n)

\* A cool-down that never ends.
isRateLimited_Forever(m, map, t) == map[m] # 0

\* isRateLimited(modelId), its result: an entry younger than the cool-down.
isRateLimited(m, map, t) ==
    /\ map[m] # 0
    /\ ~(t - map[m] >= RATE_LIMIT_COOLDOWN_MS)

\* prioritizeNonRateLimited(models): available first, rate-limited last.
prioritizeNonRateLimited(models, map, t) ==
    LET Limited(m) == isRateLimited(m, map, t)
        Available(m) == ~isRateLimited(m, map, t)
    IN  SelectSeq(models, Available) \o SelectSeq(models, Limited)

Range(seq) == {seq[i] : i \in 1..Len(seq)}

\* isRateLimited's side effect over the models it is asked about: an entry
\* whose cool-down has elapsed is deleted.
AfterIsRateLimited(models, map, t) ==
    [m \in DOMAIN map |->
        IF m \in Range(models) /\ map[m] # 0 /\ t - map[m] >= RATE_LIMIT_COOLDOWN_MS
        THEN 0 ELSE map[m]]

\* Every model id the tables and the inputs name.
Models ==
    DOMAIN BLOCKRUN_MODELS \cup {"claude-sonnet-4", "acme/unlisted"}

\* estimatedTotalTokens = ceil(body.length / 4) + maxTokens of the inputs.
TokenInputs == {4000, 125000, 2000000}

NoReq == [kind |-> "none", profile |-> "", level |-> "", tier |-> "", model |-> "",
          tokens |-> 0]

\* Requests that name a routing profile and get a routing decision: the
\* profile, the classifier's agentic signal (none; light: agenticScore 0.2;
\* high: agenticScore >= 0.6) and the tier it decides.
RoutedInputs ==
    {[kind |-> "routed", profile |-> x[1], level |-> x[2], tier |-> x[3], model |-> "",
      tokens |-> t] :
        x \in {<<"auto", "none", "COMPLEX">>, <<"auto", "none", "REASONING">>,
               <<"auto", "high", "MEDIUM">>, <<"auto", "light", "SIMPLE">>,
               <<"eco", "none", "SIMPLE">>, <<"premium", "none", "MEDIUM">>},
        t \in TokenInputs}

\* Requests with no routing decision: an explicit model (listed, free,
\* unlisted) or none at all.
ExplicitInputs ==
    {[kind |-> "explicit", profile |-> "", level |-> "", tier |-> "", model |-> m,
      tokens |-> 4000] :
        m \in {"openai/gpt-4o", FREE_MODEL, "acme/unlisted", ""}}

RequestInputs == RoutedInputs \cup ExplicitInputs

\* route(): the tier table of the profile (agenticTiers on the auto profile
\* when agenticScore >= 0.5), its primary for the tier, and whether the
\* reasoning string mentions "agentic" (the signal "agentic (...)" or
\* "agentic-light (...)", or the " | agentic" suffix).
route(profile, level, tier) ==
    LET tierConfigs == IF profile = "eco" THEN ecoTiers
                       ELSE IF profile = "premium" THEN premiumTiers
                       ELSE IF level = "high" THEN agenticTiers
                       ELSE tiers
    IN  [model |-> tierConfigs[tier].primary,
         tier |-> tier,
         reasoningAgentic |-> level # "none"]

\* The model the handler holds before the balance check.
InitialModel(r) ==
    IF r.kind = "routed" THEN route(r.profile, r.level, r.tier).model ELSE r.model

\* The guard of the balance check: modelId && !options.skipBalanceCheck (false
\* by default) && !isFreeModel, and estimateAmount knows the model.
NeedsBalanceCheck(m) ==
    /\ m # ""
    /\ m # FREE_MODEL
    /\ m \in DOMAIN BLOCKRUN_MODELS

\* The candidate list with no routing decision.
ExplicitModelsToTry(m) ==
    IF m # "" /\ m # FREE_MODEL THEN <<m, FREE_MODEL>>
    ELSE IF m # "" THEN <<m>> ELSE <<>>

\* The tier table proxyRequest takes the chain from.
ChainTierConfigs(r) ==
    IF route(r.profile, r.level, r.tier).reasoningAgentic THEN agenticTiers ELSE tiers

\* contextFiltered.slice(0, MAX_FALLBACK_ATTEMPTS).
SlicedChain(r) ==
    Slice(getFallbackChainFiltered(r.tier, ChainTierConfigs(r), r.tokens),
          MAX_FALLBACK_ATTEMPTS)

\* modelsToTry as proxyRequest builds it.
BuildModelsToTry(r, m, map, t) ==
    IF r.kind = "routed"
    THEN prioritizeNonRateLimited(SlicedChain(r), map, t)
    ELSE ExplicitModelsToTry(m)

FALLBACK_STATUS_CODES == {400, 401, 402, 403, 413, 429, 500, 502, 503, 504}

\* A classification by status alone.
isProviderError_StatusOnly(status, matches) == status \in FALLBACK_STATUS_CODES

\* isProviderError(status, body); matches: the body matches one of
\* PROVIDER_ERROR_PATTERNS.
isProviderError(status, matches) ==
    IF status \notin FALLBACK_STATUS_CODES THEN FALSE
    ELSE IF status >= 500 THEN TRUE
    ELSE matches

\* What one upstream attempt can come to: payFetch throws (network error,
\* abort), a 200 that is clean or detected as degraded, or another status
\* whose body matches a provider-error pattern or not.
NoOutcome == [kind |-> "none", status |-> 0, matches |-> FALSE]
UpstreamOutcomes ==
    {[kind |-> "throw", status |-> 0, matches |-> FALSE],
     [kind |-> "ok", status |-> 200, matches |-> FALSE],
     [kind |-> "degraded", status |-> 200, matches |-> FALSE]}
    \cup {[kind |-> "http", status |-> st, matches |-> mt] :
            st \in FALLBACK_STATUS_CODES \cup {404, 422, 501}, mt \in BOOLEAN}

\* An attempt that does not inspect the body of a 200.
tryModelRequest_NoInspection(o) ==
    IF o.kind = "throw"
    THEN [success |-> FALSE, errorStatus |-> 500, isProviderError |-> TRUE]
    ELSE IF o.status # 200
    THEN [success |-> FALSE, errorStatus |-> o.status,
          isProviderError |-> isProviderError(o.status, o.matches)]
    ELSE [success |-> TRUE, errorStatus |-> 0, isProviderError |-> FALSE]

\* tryModelRequest's result for an outcome ("degraded": a 200 of content type
\* json or text for whose body detectDegradedSuccessResponse returns a reason).
tryModelRequest(o) ==
    IF o.kind = "throw"
    THEN [success |-> FALSE, errorStatus |-> 500, isProviderError |-> TRUE]
    ELSE IF o.status # 200
    THEN [success |-> FALSE, errorStatus |-> o.status,
          isProviderError |-> isProviderError(o.status, o.matches)]
    ELSE IF o.kind = "degraded"
    THEN [success |-> FALSE, errorStatus |-> 503, isProviderError |-> TRUE]
    ELSE [success |-> TRUE, errorStatus |-> 0, isProviderError |-> FALSE]

\* The loop goes on to the next candidate.
LoopContinues(result, isLastAttempt) ==
    result.isProviderError /\ ~isLastAttempt

\* markRateLimited is called for the model just tried.
MarksRateLimited(result, isLastAttempt) ==
    LoopContinues(result, isLastAttempt) /\ result.errorStatus = 429

\* A loop that retries the candidate it just tried.
NextIndex_Stay(i) == i

\* The next value of the loop index.
NextIndex(i) == i + 1

\* The outcomes the specification counts as provider errors when it records
\* allProvider: a thrown request or a degraded 200 (reported as 500 and 503),
\* a listed 5xx status, or a listed 4xx status with a matching body.
ProviderErrorOutcome(o) ==
    \/ o.kind \in {"throw", "degraded"}
    \/ /\ o.kind = "http"
       /\ o.status \in FALLBACK_STATUS_CODES
       /\ o.status >= 500 \/ o.matches

\* Number of requests handled one after the other (SpecRateLimit).
MaxRuns == 2
\* Number of clock advances, each of half a cool-down (SpecRateLimit).
MaxTicks == 3
TickMs == RATE_LIMIT_COOLDOWN_MS \div 2
StartTime == RATE_LIMIT_COOLDOWN_MS

InitFallback ==
    /\ fpc = "idle"
    /\ req = NoReq
    /\ modelId = ""
    /\ downgraded = FALSE
    /\ modelsToTry = <<>>
    /\ idx = 0
    /\ calls = <<>>
    /\ allProvider = TRUE
    /\ upstreamOk = FALSE
    /\ clientStatus = 0
    /\ rateLimitedModels = [m \in Models |-> 0]
    /\ now = StartTime
    /\ runs = 0
    /\ finalOutcome = NoOutcome
    /\ markedAt = [m \in Models |-> 0]
    /\ limitedAtBuild = {}
    /\ aborted = FALSE
    /\ startedAborted = FALSE

\* The try block up to the first tryModelRequest call, with the handler's
\* modelId being m: the list is built and the first candidate is tried.  With
\* an empty list the loop body never runs and the error branch answers 502.
BuildAndTry(r, m) ==
    LET list == BuildModelsToTry(r, m, rateLimitedModels, now)
    IN  /\ modelsToTry' = list
        /\ rateLimitedModels' =
             IF r.kind = "routed"
             THEN AfterIsRateLimited(SlicedChain(r), rateLimitedModels, now)
             ELSE rateLimitedModels
        /\ limitedAtBuild' =
             {x \in Models : markedAt[x] # 0 /\ now - markedAt[x] < RATE_LIMIT_COOLDOWN_MS}
        /\ IF Len(list) = 0
           THEN /\ fpc' = "done"
                /\ clientStatus' = 502
                /\ idx' = 0
                /\ calls' = <<>>
           ELSE /\ fpc' = "attempting"
                /\ clientStatus' = 0
                /\ idx' = 1
                /\ calls' = <<list[1]>>

\* A request arrives; without a balance check the handler runs on to its
\* first upstream attempt.
StartRequest(r) ==
    /\ fpc \in {"idle", "done"}
    /\ runs' = runs + 1
    /\ req' = r
    /\ modelId' = InitialModel(r)
    /\ downgraded' = FALSE
    /\ allProvider' = TRUE
    /\ upstreamOk' = FALSE
    /\ finalOutcome' = NoOutcome
    /\ IF NeedsBalanceCheck(InitialModel(r))
       THEN /\ fpc' = "balance"
            /\ modelsToTry' = <<>>
            /\ idx' = 0
            /\ calls' = <<>>
            /\ clientStatus' = 0
            /\ limitedAtBuild' = {}
            /\ UNCHANGED rateLimitedModels
       ELSE BuildAndTry(r, InitialModel(r))
    /\ aborted' = FALSE
    /\ startedAborted' = FALSE
    /\ UNCHANGED <<now, markedAt>>
    /\ UNCHANGED dedupVars
    /\ UNCHANGED otherVars

BalanceOutcomes == {"sufficient", "low", "insufficient", "empty"}

\* checkSufficient returns: an empty wallet or an insufficient balance
\* rewrites modelId (and the body's model) to FREE_MODEL; then the try block.
BalanceResult(b) ==
    /\ fpc = "balance"
    /\ LET low == b \in {"insufficient", "empty"}
           m == IF low THEN FREE_MODEL ELSE modelId
       IN  /\ modelId' = m
           /\ downgraded' = low
           /\ BuildAndTry(req, m)
    /\ UNCHANGED <<req, allProvider, upstreamOk, now, runs, finalOutcome, markedAt,
                   aborted, startedAborted>>
    /\ UNCHANGED dedupVars
    /\ UNCHANGED otherVars

\* checkSufficient throws RpcError: the server callback answers 502.
BalanceRpcError ==
    /\ fpc = "balance"
    /\ fpc' = "done"
    /\ clientStatus' = 502
    /\ UNCHANGED <<req, modelId, downgraded, modelsToTry, idx, calls, allProvider,
                   upstreamOk, rateLimitedModels, now, runs, finalOutcome, markedAt,
                   limitedAtBuild, aborted, startedAborted>>
    /\ UNCHANGED dedupVars
    /\ UNCHANGED otherVars

\* tryModelRequest returns for candidate idx with upstream outcome o: the
\* rest of the loop body, and either the next attempt or the response
\* (lastError.status is read in the step that sets it).  A fetch called with
\* a signal that is already aborted rejects; the next attempt is called
\* with the one controller.signal of the request.
AttemptReturns(o) ==
    /\ fpc = "attempting"
    /\ startedAborted => o.kind = "throw"
    /\ LET result == tryModelRequest(o)
           tryModel == modelsToTry[idx]
           isLastAttempt == idx = Len(modelsToTry)
           lastError == IF result.errorStatus # 0 THEN result.errorStatus ELSE 500
       IN  IF result.success
           THEN /\ upstreamOk' = TRUE
                /\ fpc' = "done"
                /\ clientStatus' = 200
                /\ finalOutcome' = o
                /\ UNCHANGED <<allProvider, idx, calls, rateLimitedModels, markedAt,
                               startedAborted>>
           ELSE /\ allProvider' = (allProvider /\ ProviderErrorOutcome(o))
                /\ UNCHANGED upstreamOk
                /\ IF MarksRateLimited(result, isLastAttempt)
                   THEN /\ rateLimitedModels' = [rateLimitedModels EXCEPT ![tryModel] = now]
                        /\ markedAt' = [markedAt EXCEPT ![tryModel] = now]
                   ELSE UNCHANGED <<rateLimitedModels, markedAt>>
                /\ IF LoopContinues(result, isLastAttempt)
                   THEN /\ idx' = NextIndex(idx)
                        /\ calls' = Append(calls, modelsToTry[NextIndex(idx)])
                        /\ startedAborted' = aborted
                        /\ UNCHANGED <<fpc, clientStatus, finalOutcome>>
                   ELSE /\ fpc' = "done"
                        /\ clientStatus' = lastError
                        /\ finalOutcome' = o
                        /\ UNCHANGED <<idx, calls, startedAborted>>
    /\ UNCHANGED <<req, modelId, downgraded, modelsToTry, now, runs, limitedAtBuild,
                   aborted>>
    /\ UNCHANGED dedupVars
    /\ UNCHANGED otherVars

\* Time passes.
Tick ==
    /\ now < StartTime + MaxTicks * TickMs
    /\ now' = now + TickMs
    /\ UNCHANGED <<fpc, req, modelId, downgraded, modelsToTry, idx, calls, allProvider,
                   upstreamOk, clientStatus, rateLimitedModels, runs, finalOutcome,
                   markedAt, limitedAtBuild, aborted, startedAborted>>
    /\ UNCHANGED dedupVars
    /\ UNCHANGED otherVars

\* The request's timer (setTimeout(() => controller.abort(), timeoutMs), set
\* once before the loop and cleared after it) fires during an attempt.
TimeoutFires ==
    /\ fpc = "attempting"
    /\ ~aborted
    /\ aborted' = TRUE
    /\ UNCHANGED <<fpc, req, modelId, downgraded, modelsToTry, idx, calls, allProvider,
                   upstreamOk, clientStatus, rateLimitedModels, now, runs, finalOutcome,
                   markedAt, limitedAtBuild, startedAborted>>
    /\ UNCHANGED dedupVars
    /\ UNCHANGED otherVars

\* The inputs of SpecRateLimit: routed requests of one tier, and upstream
\* outcomes that succeed, rate-limit or fail.
RateLimitInputs ==
    {r \in RoutedInputs : /\ r.profile = "auto" /\ r.level = "none"
                          /\ r.tier = "REASONING" /\ r.tokens \in {4000, 125000}}
RateLimitOutcomes ==
    {o \in UpstreamOutcomes :
        \/ o.kind = "ok"
        \/ o.kind = "http" /\ o.status \in {429, 500} /\ o.matches}

(***************************************************************************)
(* Part 3.  The payment-bearing fetch (SpecPay)                            *)
(*                                                                         *)
(* Successive payFetch calls for one endpoint path.  The x-payment-required *)
(* header of a 402 is absent ("none"), well formed ("valid"), unusable     *)
(* before anything is cached ("malformed": not base64 JSON, no accepts[0], *)
(* no amount) or carries an invalid payTo or asset address ("badaddress"). *)
(***************************************************************************)

\* Number of payFetch calls.
MaxPayCalls == 3

NoPaymentEntry == [state |-> "none", usable |-> FALSE]
NoPayResult == [kind |-> "none", status |-> 0, header |-> "none"]
PayThrows == [kind |-> "throw", status |-> 0, header |-> "none"]

\* What a fetch can come to: a rejection, or a response.
PayReplies ==
    {PayThrows}
    \cup {[kind |-> "http", status |-> st, header |-> "none"] : st \in {200, 500}}
    \cup {[kind |-> "http", status |-> 402, header |-> h] :
            h \in {"none", "valid", "malformed", "badaddress"}}

\* A nonce generator that repeats itself.
createNonce_Repeat(ctr) == 1

\* createNonce(): 32 random bytes, taken as a fresh value at every call.
createNonce(ctr) == ctr + 1

\* An invalidation that leaves the entry in place.
invalidate_Keep(entry) == entry

\* PaymentCache.invalidate(endpointPath).
invalidate(entry) == NoPaymentEntry

\* PaymentCache.get(endpointPath): an entry past its TTL is deleted on read.
paymentCacheGet(entry) == IF entry.state = "stale" THEN NoPaymentEntry ELSE entry

\* A request without payment headers, and one with both payment headers set
\* to a payload signed over the nonce; cached: the cache held an entry for
\* the endpoint path when the request was sent.
CleanRequest(entry) ==
    [signed |-> FALSE, nonce |-> 0, cached |-> entry.state # "none"]
SignedRequest(nonce, entry) ==
    [signed |-> TRUE, nonce |-> nonce, cached |-> entry.state # "none"]

\* A call that handles the 402 of its signed retry like a first 402.
payDecision_RetryAgain(phase, path, rsp) ==
    IF rsp.kind = "throw" THEN "throw"
    ELSE IF rsp.status # 402 THEN "return"
    ELSE IF rsp.header # "none" THEN "handle402"
    ELSE IF phase = "first" /\ path = "preauth" THEN "clean"
    ELSE "throw"

\* What payFetch does with the outcome of the fetch it awaited in a phase.
payDecision(phase, path, rsp) ==
    IF rsp.kind = "throw" THEN "throw"
    ELSE IF phase = "retry" THEN "return"
    ELSE IF rsp.status # 402 THEN "return"
    ELSE IF rsp.header # "none" THEN "handle402"
    ELSE IF phase = "first" /\ path = "preauth" THEN "clean"
    ELSE "throw"

InitPay ==
    /\ ppc = "idle"
    /\ payPath = "none"
    /\ paymentCache = NoPaymentEntry
    /\ sent = <<>>
    /\ replies = <<>>
    /\ nonceCtr = 0
    /\ nonceBase = 0
    /\ payResult = NoPayResult
    /\ payCalls = 0

\* payFetch is called, with or without an estimated amount: with a cached
\* entry and an amount the first request is pre-signed from the cached
\* parameters (createPaymentPayload throws on an invalid cached address).
PayStart(preAuth) ==
    /\ ppc \in {"idle", "done"}
    /\ payCalls < MaxPayCalls
    /\ payCalls' = payCalls + 1
    /\ replies' = <<>>
    /\ nonceBase' = nonceCtr
    /\ LET cached == paymentCacheGet(paymentCache)
       IN  /\ paymentCache' = cached
           /\ IF cached.state = "fresh" /\ preAuth
              THEN /\ payPath' = "preauth"
                   /\ IF cached.usable
                      THEN /\ sent' = <<SignedRequest(createNonce(nonceCtr), cached)>>
                           /\ nonceCtr' = nonceCtr + 1
                           /\ ppc' = "first"
                           /\ payResult' = NoPayResult
                      ELSE /\ sent' = <<>>
                           /\ ppc' = "done"
                           /\ payResult' = PayThrows
                           /\ UNCHANGED nonceCtr
              ELSE /\ payPath' = "normal"
                   /\ sent' = <<CleanRequest(cached)>>
                   /\ ppc' = "first"
                   /\ payResult' = NoPayResult
                   /\ UNCHANGED nonceCtr
    /\ UNCHANGED <<dedupVars, fbVars, cacheVars, streamVars, extraVars>>

\* handle402(header): parse, cache the parameters, sign, retry.
handle402(header) ==
    IF header = "malformed"
    THEN /\ ppc' = "done"
         /\ payResult' = PayThrows
         /\ UNCHANGED <<paymentCache, sent, nonceCtr>>
    ELSE LET entry == [state |-> "fresh", usable |-> header = "valid"]
         IN  /\ paymentCache' = entry
             /\ IF header = "valid"
                THEN /\ sent' = Append(sent, SignedRequest(createNonce(nonceCtr), entry))
                     /\ nonceCtr' = nonceCtr + 1
                     /\ ppc' = "retry"
                     /\ UNCHANGED payResult
                ELSE /\ ppc' = "done"
                     /\ payResult' = PayThrows
                     /\ UNCHANGED <<sent, nonceCtr>>

\* The fetch the call awaits settles with rsp.
PayReply(rsp) ==
    /\ ppc \in {"first", "clean", "retry"}
    /\ replies' = Append(replies, rsp)
    /\ LET d == payDecision(ppc, payPath, rsp)
       IN  CASE d = "throw" ->
                  /\ ppc' = "done"
                  /\ payResult' = PayThrows
                  /\ UNCHANGED <<paymentCache, sent, nonceCtr>>
             [] d = "return" ->
                  /\ ppc' = "done"
                  /\ payResult' = rsp
                  /\ UNCHANGED <<paymentCache, sent, nonceCtr>>
             [] d = "handle402" -> handle402(rsp.header)
             [] d = "clean" ->
                  /\ paymentCache' = invalidate(paymentCache)
                  /\ sent' = Append(sent, CleanRequest(invalidate(paymentCache)))
                  /\ ppc' = "clean"
                  /\ UNCHANGED <<payResult, nonceCtr>>
    /\ UNCHANGED <<payPath, nonceBase, payCalls>>
    /\ UNCHANGED <<dedupVars, fbVars, cacheVars, streamVars, extraVars>>

\* The TTL of the cached payment parameters (DEFAULT_TTL_MS, one hour) elapses.
PaymentTtlElapse ==
    /\ paymentCache.state = "fresh"
    /\ paymentCache' = [paymentCache EXCEPT !.state = "stale"]
    /\ UNCHANGED <<ppc, payPath, sent, replies, nonceCtr, nonceBase, payResult, payCalls>>
    /\ UNCHANGED <<dedupVars, fbVars, cacheVars, streamVars, extraVars>>

(***************************************************************************)
(* Part 4.  The response cache (SpecCache)                                 *)
(*                                                                         *)
(* The ResponseCache object (set, get, clear, evict) and the two places    *)
(* where proxyRequest uses it: the lookup before deduplication and the     *)
(* store after a non-streaming response.  Time is counted in seconds.  A   *)
(* request is its content, its stream flag, whether its cache-control      *)
(* header contains "no-cache" and whether its body says cache:false or     *)
(* no_cache:true.                                                          *)
(***************************************************************************)

\* Largest configured maxSize, and number of clock steps.  The heap is
\* followed up to one entry more than the largest cache holds.
MaxCacheSize == 2
MaxCacheTicks == 2
MaxHeap == MaxCacheSize + 1

\* DEFAULT_CONFIG.
defaultTTL == 600
maxItemSize == 1048576

Contents == {1, 2}
CacheKeys == Contents \X BOOLEAN
DirectKeys == Contents \X {FALSE}
CacheConfigs == [maxSize : 0..MaxCacheSize, enabled : BOOLEAN]
CacheTTLs == {defaultTTL, 2 * defaultTTL}
CacheSizes == {maxItemSize, maxItemSize + 1}
ProxiedRequests ==
    [content : Contents, stream : BOOLEAN, hdrNoCache : BOOLEAN, bodyNoCache : BOOLEAN]

NoCacheEntry ==
    [present |-> FALSE, expiresAt |-> 0, status |-> 0, size |-> 0, byNoCache |-> FALSE]
NoPending == [content |-> 0, stream |-> FALSE, hdrNoCache |-> FALSE, bodyNoCache |-> FALSE]
NoLookup ==
    [kind |-> "none", hit |-> FALSE, stream |-> FALSE, hdrNoCache |-> FALSE,
     bodyNoCache |-> FALSE, status |-> 0, size |-> 0, byNoCache |-> FALSE]
Lookup(kind, request, entry) ==
    [kind |-> kind, hit |-> entry.present, stream |-> request.stream,
     hdrNoCache |-> request.hdrNoCache, bodyNoCache |-> request.bodyNoCache,
     status |-> entry.status, size |-> entry.size, byNoCache |-> entry.byNoCache]
NoEvict == [ran |-> FALSE, before |-> [k \in CacheKeys |-> NoCacheEntry],
            mid |-> [k \in CacheKeys |-> NoCacheEntry],
            after |-> [k \in CacheKeys |-> NoCacheEntry], heap |-> <<>>, at |-> 0]

\* ResponseCache.generateKey: a hash of the body without stream, user and
\* request ids; the cache and no_cache fields stay in it.
generateKey(request) == <<request.content, request.bodyNoCache>>

\* A shouldCache that does not look at the request headers.
shouldCache_BodyOnly(enabled, bodyNoCache, hdrNoCache) ==
    enabled /\ ~bodyNoCache

\* ResponseCache.shouldCache(body, headers?); hdrNoCache is FALSE when the
\* caller passes no headers.
shouldCache(enabled, bodyNoCache, hdrNoCache) ==
    IF ~enabled THEN FALSE
    ELSE IF hdrNoCache THEN FALSE
    ELSE IF bodyNoCache THEN FALSE
    ELSE TRUE

\* this.cache.size
CacheSize(c) == Cardinality({k \in CacheKeys : c[k].present})

\* A capacity test that lets the cache grow one past maxSize.
AtCapacity_Strict(n, m) == n > m

\* set: this.cache.size >= this.config.maxSize
AtCapacity(n, m) == n >= m

\* A sort that leaves the heap as it is.
SortByExpiry_None(h) == h

\* expirationHeap.sort((a, b) => a.expiresAt - b.expiresAt): a stable sort;
\* an entry's new position is one more than the number of entries that
\* expire before it or expire with it and stood before it.
SortByExpiry(h) ==
    LET rank(i) == 1 + Cardinality({j \in 1..Len(h) :
                        \/ h[j].expiresAt < h[i].expiresAt
                        \/ h[j].expiresAt = h[i].expiresAt /\ j < i})
    IN  [p \in 1..Len(h) |-> h[CHOOSE i \in 1..Len(h) : rank(i) = p]]

\* A first pass that takes every record of a stored key for that of its
\* current entry.
RECURSIVE EvictExpired_AnyRecord(_, _, _)
EvictExpired_AnyRecord(c, h, t) ==
    IF h = <<>> THEN [cache |-> c, heap |-> h]
    ELSE LET oldest == Head(h)
             entry == c[oldest.key]
         IN  IF ~entry.present
             THEN EvictExpired_AnyRecord(c, Tail(h), t)
             ELSE IF oldest.expiresAt <= t
             THEN EvictExpired_AnyRecord([c EXCEPT ![oldest.key] = NoCacheEntry], Tail(h), t)
             ELSE [cache |-> c, heap |-> h]

\* evict, first pass: shift stale heap entries, delete expired ones, stop at
\* the first live unexpired one.
RECURSIVE EvictExpired(_, _, _)
EvictExpired(c, h, t) ==
    IF h = <<>> THEN [cache |-> c, heap |-> h]
    ELSE LET oldest == Head(h)
             entry == c[oldest.key]
         IN  IF ~entry.present \/ entry.expiresAt # oldest.expiresAt
             THEN EvictExpired(c, Tail(h), t)
             ELSE IF oldest.expiresAt <= t
             THEN EvictExpired([c EXCEPT ![oldest.key] = NoCacheEntry], Tail(h), t)
             ELSE [cache |-> c, heap |-> h]

\* evict, second pass: while still at capacity, shift the heap and delete
\* the key it names.
RECURSIVE EvictOldest(_, _, _)
EvictOldest(c, h, m) ==
    IF CacheSize(c) >= m /\ h # <<>>
    THEN EvictOldest([c EXCEPT ![Head(h).key] = NoCacheEntry], Tail(h), m)
    ELSE [cache |-> c, heap |-> h]

\* ResponseCache.evict()
evict(c, h, t, m) ==
    LET p == EvictExpired(c, SortByExpiry(h), t)
        q == EvictOldest(p.cache, p.heap, m)
    IN  [cache |-> q.cache, heap |-> q.heap, mid |-> p.cache]

\* ResponseCache.set(key, response, ttlSeconds): the cache and the heap
\* after the call, whether the response was stored, and the record of the
\* eviction (the cache before it, between its passes and after it).
cacheSet(key, status, size, ttl, byNoCache) ==
    LET same == [cache |-> cache, heap |-> expirationHeap, stored |-> FALSE,
                 evict |-> NoEvict]
    IN  IF ~config.enabled \/ config.maxSize <= 0 THEN same
        ELSE IF size > maxItemSize THEN same
        ELSE IF status >= 400 THEN same
        ELSE LET full == AtCapacity(CacheSize(cache), config.maxSize)
                 e == IF full THEN evict(cache, expirationHeap, cnow, config.maxSize)
                      ELSE [cache |-> cache, heap |-> expirationHeap, mid |-> cache]
                 expiresAt == cnow + ttl
                 entry == [present |-> TRUE, expiresAt |-> expiresAt, status |-> status,
                           size |-> size, byNoCache |-> byNoCache]
             IN  [cache |-> [e.cache EXCEPT ![key] = entry],
                  heap |-> Append(e.heap, [expiresAt |-> expiresAt, key |-> key]),
                  stored |-> TRUE,
                  evict |-> IF full
                            THEN [ran |-> TRUE, before |-> cache, mid |-> e.mid,
                                  after |-> e.cache, heap |-> expirationHeap, at |-> cnow]
                            ELSE NoEvict]

\* History of the latest store per key after a set: the key just stored
\* takes its new entry; a key the second pass of evict deleted has none.
NoLatest == [live |-> FALSE, expiresAt |-> 0, size |-> 0]
LatestAfterSet(key, r) ==
    [k \in CacheKeys |->
        IF r.stored /\ k = key
        THEN [live |-> TRUE, expiresAt |-> r.cache[k].expiresAt, size |-> r.cache[k].size]
        ELSE IF r.evict.ran /\ r.evict.mid[k].present /\ ~r.evict.after[k].present
        THEN NoLatest
        ELSE latest[k]]

\* ResponseCache.get(key): the entry returned (NoCacheEntry for undefined)
\* and the cache after the call; an entry past its expiry is deleted.
cacheGet(key) ==
    LET entry == cache[key]
    IN  IF ~entry.present THEN [entry |-> NoCacheEntry, cache |-> cache]
        ELSE IF cnow > entry.expiresAt
        THEN [entry |-> NoCacheEntry, cache |-> [cache EXCEPT ![key] = NoCacheEntry]]
        ELSE [entry |-> entry, cache |-> cache]

InitCache(cfg) ==
    /\ config = cfg
    /\ cache = [k \in CacheKeys |-> NoCacheEntry]
    /\ expirationHeap = <<>>
    /\ cnow = 0
    /\ pending = NoPending
    /\ lastLookup = NoLookup
    /\ lastEvict = NoEvict
    /\ latest = [k \in CacheKeys |-> NoLatest]

\* responseCache.set called directly.
Set(key, status, size, ttl) ==
    /\ LET r == cacheSet(key, status, size, ttl, FALSE)
       IN  /\ Len(r.heap) <= MaxHeap
           /\ cache' = r.cache
           /\ expirationHeap' = r.heap
           /\ lastEvict' = r.evict
           /\ latest' = LatestAfterSet(key, r)
    /\ lastLookup' = NoLookup
    /\ UNCHANGED <<config, cnow, pending>>
    /\ UNCHANGED <<dedupVars, fbVars, payVars, streamVars, extraVars>>

\* responseCache.get called directly.
Get(key) ==
    /\ LET r == cacheGet(key)
       IN  /\ cache' = r.cache
           /\ lastLookup' = Lookup("get", NoPending, r.entry)
    /\ lastEvict' = NoEvict
    /\ UNCHANGED <<config, expirationHeap, cnow, pending, latest>>
    /\ UNCHANGED <<dedupVars, fbVars, payVars, streamVars, extraVars>>

\* responseCache.clear()
Clear ==
    /\ cache' = [k \in CacheKeys |-> NoCacheEntry]
    /\ expirationHeap' = <<>>
    /\ latest' = [k \in CacheKeys |-> NoLatest]
    /\ lastLookup' = NoLookup
    /\ lastEvict' = NoEvict
    /\ UNCHANGED <<config, cnow, pending>>
    /\ UNCHANGED <<dedupVars, fbVars, payVars, streamVars, extraVars>>

\* Time passes, one default TTL at a time.
CacheTick ==
    /\ cnow < MaxCacheTicks * defaultTTL
    /\ cnow' = cnow + defaultTTL
    /\ lastLookup' = NoLookup
    /\ lastEvict' = NoEvict
    /\ UNCHANGED <<config, cache, expirationHeap, pending, latest>>
    /\ UNCHANGED <<dedupVars, fbVars, payVars, streamVars, extraVars>>

\* proxyRequest up to the response-cache lookup: a hit is written to the
\* client and the handler returns; otherwise the request goes on upstream.
ProxyLookup(request) ==
    /\ pending = NoPending
    /\ IF shouldCache(config.enabled, request.bodyNoCache, request.hdrNoCache)
       THEN LET r == cacheGet(generateKey(request))
            IN  /\ cache' = r.cache
                /\ lastLookup' = Lookup("proxy", request, r.entry)
                /\ pending' = IF r.entry.present THEN NoPending ELSE request
       ELSE /\ lastLookup' = Lookup("proxy", request, NoCacheEntry)
            /\ pending' = request
            /\ UNCHANGED cache
    /\ lastEvict' = NoEvict
    /\ UNCHANGED <<config, expirationHeap, cnow, latest>>
    /\ UNCHANGED <<dedupVars, fbVars, payVars, streamVars, extraVars>>

\* proxyRequest after the upstream answered the pending request: the body
\* of a non-streaming 200 is stored when shouldCache(body) allows it.
ProxyStore(status, size) ==
    /\ pending # NoPending
    /\ Len(expirationHeap) < MaxHeap
    /\ IF /\ ~pending.stream
          /\ status = 200
          /\ shouldCache(config.enabled, pending.bodyNoCache, FALSE)
       THEN LET r == cacheSet(generateKey(pending), status, size, defaultTTL,
                              pending.hdrNoCache \/ pending.bodyNoCache)
            IN  /\ cache' = r.cache
                /\ expirationHeap' = r.heap
                /\ lastEvict' = r.evict
       ELSE /\ lastEvict' = NoEvict
            /\ UNCHANGED <<cache, expirationHeap>>
    /\ pending' = NoPending
    /\ lastLookup' = NoLookup
    /\ UNCHANGED <<config, cnow, latest>>
    /\ UNCHANGED <<dedupVars, fbVars, payVars, streamVars, extraVars>>

(***************************************************************************)
(* Part 5.  A streaming request (SpecStream)                               *)
(*                                                                         *)
(* One stream:true chat completion that neither the response cache nor     *)
(* the deduplicator answered: the balance check, the early SSE head with   *)
(* its heartbeat ticker, the close listener, the request timeout, the      *)
(* fallback loop reduced to the number of candidates left, the read of the *)
(* upstream body, and the error handling of proxyRequest and of the server *)
(* callback.  out holds what reached the open connection: "hb" for a       *)
(* ": heartbeat" comment, "data" for a completion chunk event, "error" for *)
(* an error data event, "DONE" for "data: [DONE]", "json" for a JSON body. *)
(***************************************************************************)

\* Candidates in the list, heartbeat ticks followed, chunk events of a body.
MaxStreamCandidates == 2
MaxHeartbeats == 2
MaxChunks == 2

\* canWrite(res), with the socket tests reduced to the connection being open.
canWrite(conn, ended) == conn /\ ~ended

\* safeWrite(res, data): out after the call.
safeWrite(o, data, conn, ended) == IF canWrite(conn, ended) THEN Append(o, data) ELSE o

\* res.write(data) as the server callback calls it.
resWrite(o, data, conn) == IF conn THEN Append(o, data) ELSE o

RECURSIVE WriteChunks(_, _, _, _)
WriteChunks(o, n, conn, ended) ==
    IF n = 0 THEN o ELSE WriteChunks(safeWrite(o, "data", conn, ended), n - 1, conn, ended)

\* An early head without the first heartbeat.
FirstHeartbeat_None(o, conn) == o

\* safeWrite(res, ": heartbeat\n\n") right after res.writeHead(200, ...).
FirstHeartbeat(o, conn) == safeWrite(o, "hb", conn, FALSE)

\* if (heartbeatInterval) { clearInterval(heartbeatInterval); heartbeatInterval = void 0 }
clearHeartbeat(h) == FALSE

\* An error emission without the terminator.
EmitStreamError_NoDone(o, conn, ended) == safeWrite(o, "error", conn, ended)

\* proxyRequest, no upstream succeeded and headersSentEarly: the error event,
\* then the terminator.
EmitStreamError(o, conn, ended) ==
    safeWrite(safeWrite(o, "error", conn, ended), "DONE", conn, ended)

\* The server callback's catch.
ServerCatch(o, conn, head, ended) ==
    IF head = "none" THEN resWrite(o, "json", conn)
    ELSE IF ~ended THEN resWrite(resWrite(o, "error", conn), "DONE", conn)
    ELSE o

InitStream ==
    /\ spc = "idle"
    /\ sconn = TRUE
    /\ closeListener = FALSE
    /\ heartbeatInterval = FALSE
    /\ sHeaders = "none"
    /\ sEnded = FALSE
    /\ out = <<>>
    /\ sAborted = FALSE
    /\ sLeft = 0
    /\ hbTicks = 0
    /\ sResult = "none"
    /\ sAttempts = 0
    /\ lenAtClose = -1

\* The request has passed the response cache and the deduplicator and
\* awaits balanceMonitor.checkSufficient.
StreamArrive ==
    /\ spc = "idle"
    /\ spc' = "balance"
    /\ UNCHANGED <<sconn, closeListener, heartbeatInterval, sHeaders, sEnded, out, sAborted,
                   sLeft, hbTicks, sResult, sAttempts, lenAtClose>>
    /\ UNCHANGED <<dedupVars, fbVars, payVars, cacheVars, extraVars>>

\* The balance check settles.  When it throws, the server callback answers
\* 502.  Otherwise the SSE head and the first heartbeat are written, the
\* ticker starts, the close listener and the timeout are set up, and the
\* first attempt of a list of n candidates starts.
StreamBalance(ok, n) ==
    /\ spc = "balance"
    /\ IF ok
       THEN /\ sHeaders' = "sse"
            /\ out' = FirstHeartbeat(out, sconn)
            /\ heartbeatInterval' = TRUE
            /\ closeListener' = TRUE
            /\ sLeft' = n
            /\ sAttempts' = 1
            /\ spc' = "attempting"
            /\ UNCHANGED <<sEnded, sResult>>
       ELSE /\ sHeaders' = "json"
            /\ out' = ServerCatch(out, sconn, sHeaders, sEnded)
            /\ sEnded' = TRUE
            /\ sResult' = "failure"
            /\ spc' = "done"
            /\ UNCHANGED <<heartbeatInterval, closeListener, sLeft, sAttempts>>
    /\ UNCHANGED <<sconn, sAborted, hbTicks, lenAtClose>>
    /\ UNCHANGED <<dedupVars, fbVars, payVars, cacheVars, extraVars>>

\* The heartbeat ticker fires: it writes while it can and stops itself
\* otherwise.
HeartbeatTick ==
    /\ heartbeatInterval
    /\ IF canWrite(sconn, sEnded)
       THEN /\ hbTicks < MaxHeartbeats
            /\ out' = safeWrite(out, "hb", sconn, sEnded)
            /\ hbTicks' = hbTicks + 1
            /\ UNCHANGED heartbeatInterval
       ELSE /\ heartbeatInterval' = FALSE
            /\ UNCHANGED <<out, hbTicks>>
    /\ UNCHANGED <<spc, sconn, closeListener, sHeaders, sEnded, sAborted, sLeft, sResult,
                   sAttempts, lenAtClose>>
    /\ UNCHANGED <<dedupVars, fbVars, payVars, cacheVars, extraVars>>

\* The client goes away; a registered close listener stops the ticker.
StreamClientClose ==
    /\ sconn
    /\ sconn' = FALSE
    /\ lenAtClose' = Len(out)
    /\ heartbeatInterval' =
          IF closeListener THEN clearHeartbeat(heartbeatInterval) ELSE heartbeatInterval
    /\ UNCHANGED <<spc, closeListener, sHeaders, sEnded, out, sAborted, sLeft, hbTicks,
                   sResult, sAttempts>>
    /\ UNCHANGED <<dedupVars, fbVars, payVars, cacheVars, extraVars>>

\* setTimeout(() => controller.abort(), timeoutMs) fires; the timer is
\* cleared once the loop is over.
StreamTimeout ==
    /\ spc = "attempting"
    /\ ~sAborted
    /\ sAborted' = TRUE
    /\ UNCHANGED <<spc, sconn, closeListener, heartbeatInterval, sHeaders, sEnded, out,
                   sLeft, hbTicks, sResult, sAttempts, lenAtClose>>
    /\ UNCHANGED <<dedupVars, fbVars, payVars, cacheVars, extraVars>>

\* tryModelRequest returns: "ok", a provider error, or another error.  An
\* aborted signal makes it a provider error.  After the loop the timers are
\* cleared; without an upstream the error is emitted and the response ended.
StreamAttempt(o) ==
    /\ spc = "attempting"
    /\ sAborted => o = "provider"
    /\ IF o = "provider" /\ sLeft > 1
       THEN /\ sLeft' = sLeft - 1
            /\ sAttempts' = sAttempts + 1
            /\ UNCHANGED <<spc, heartbeatInterval, out, sEnded, sResult>>
       ELSE /\ heartbeatInterval' = clearHeartbeat(heartbeatInterval)
            /\ UNCHANGED <<sLeft, sAttempts>>
            /\ IF o = "ok"
               THEN /\ spc' = "reading"
                    /\ UNCHANGED <<out, sEnded, sResult>>
               ELSE /\ out' = EmitStreamError(out, sconn, sEnded)
                    /\ sEnded' = TRUE
                    /\ sResult' = "failure"
                    /\ spc' = "done"
    /\ UNCHANGED <<sconn, closeListener, sHeaders, sAborted, hbTicks, lenAtClose>>
    /\ UNCHANGED <<dedupVars, fbVars, payVars, cacheVars, extraVars>>

\* The read of the upstream body settles: with a body of n chunk events,
\* which are written with the terminator (and something may still throw
\* after res.end()), or with an exception, which proxyRequest's catch passes
\* to the server callback.
StreamBody(kind, n) ==
    /\ spc = "reading"
    /\ heartbeatInterval' = clearHeartbeat(heartbeatInterval)
    /\ IF kind = "throw"
       THEN /\ out' = ServerCatch(out, sconn, sHeaders, sEnded)
            /\ sResult' = "failure"
       ELSE /\ LET written == safeWrite(WriteChunks(out, n, sconn, sEnded), "DONE",
                                        sconn, sEnded)
               IN  out' = IF kind = "lateThrow"
                          THEN ServerCatch(written, sconn, sHeaders, TRUE)
                          ELSE written
            /\ sResult' = "success"
    /\ sEnded' = TRUE
    /\ spc' = "done"
    /\ UNCHANGED <<sconn, closeListener, sHeaders, sAborted, sLeft, hbTicks, sAttempts,
                   lenAtClose>>
    /\ UNCHANGED <<dedupVars, fbVars, payVars, cacheVars, extraVars>>

(***************************************************************************)
(* Part 6.  The balance monitor (SpecBalance)                              *)
(*                                                                         *)
(* Requests that pass the dedup section: the balance check with its RPC    *)
(* read (an await), the attempt, and the three ways the handler ends.      *)
(* Amounts are in USDC micros.  Every RPC read is numbered so that the     *)
(* read behind a returned balance can be told apart.                       *)
(***************************************************************************)
NumBalReqs == 3
MaxBalTicks == 1
BalReqs == 1 .. NumBalReqs
CACHE_TTL_MS == 30000
ZERO_THRESHOLD == 100
\* Math.ceil(BALANCE_CHECK_BUFFER * 100), BALANCE_CHECK_BUFFER = 1.5
BALANCE_CHECK_BUFFER == 150
NullBalance == -1
NoEstimate == 0
\* estimateAmount returns at least 100 micros
Estimates == {100}
Balances == {0, 100, 200}

NoCheck == [called |-> FALSE, afterInval |-> FALSE, read |-> 0, mark |-> 0]
NoFinish ==
    [kind |-> "none", onPaid |-> FALSE, downgraded |-> FALSE, est |-> NoEstimate,
     before |-> NullBalance, after |-> NullBalance]

cacheValid(cb, at, t) == cb # NullBalance /\ t - at < CACHE_TTL_MS

isEmpty(balance) == balance < ZERO_THRESHOLD

bufferedCostMicros(est) == (est * BALANCE_CHECK_BUFFER) \div 100

checkSufficient(balance, cost) == balance >= cost

\* the request falls back to the free model
Downgrade(balance, est) ==
    isEmpty(balance) \/ ~checkSufficient(balance, bufferedCostMicros(est))

deductEstimated(cb, amountMicros) ==
    IF cb # NullBalance /\ cb >= amountMicros THEN cb - amountMicros ELSE cb

InitBalance ==
    /\ bpc = [b \in BalReqs |-> "idle"]
    /\ estimatedCostMicros = [b \in BalReqs |-> NoEstimate]
    /\ onPaid = [b \in BalReqs |-> FALSE]
    /\ fetchStart = [b \in BalReqs |-> 0]
    /\ fetchRead = [b \in BalReqs |-> 0]
    /\ cachedBalance = NullBalance
    /\ cachedAt = 0
    /\ bnow = CACHE_TTL_MS
    /\ readCtr = 0
    /\ cachedRead = 0
    /\ invalMark = 0
    /\ pendingInval = FALSE
    /\ lastCheck = NoCheck
    /\ lastFinish = NoFinish

\* A request reaches the balance section.  paid: the model is not
\* FREE_MODEL; est: what estimateAmount returned (NoEstimate when the model
\* is free or unknown, or the check is skipped).  With an estimate the
\* handler calls checkSufficient: a valid cache answers at once, otherwise
\* an RPC read is issued and awaited.
BalArrive(b, paid, est) ==
    /\ bpc[b] = "idle"
    /\ ~paid => est = NoEstimate
    /\ estimatedCostMicros' = [estimatedCostMicros EXCEPT ![b] = est]
    /\ lastFinish' = NoFinish
    /\ IF est = NoEstimate
       THEN /\ bpc' = [bpc EXCEPT ![b] = "attempt"]
            /\ onPaid' = [onPaid EXCEPT ![b] = paid]
            /\ lastCheck' = NoCheck
            /\ UNCHANGED <<fetchStart, fetchRead, readCtr, pendingInval>>
       ELSE IF cacheValid(cachedBalance, cachedAt, bnow)
       THEN /\ bpc' = [bpc EXCEPT ![b] = "attempt"]
            /\ onPaid' = [onPaid EXCEPT ![b] = ~Downgrade(cachedBalance, est)]
            /\ lastCheck' = [called |-> TRUE, afterInval |-> pendingInval,
                             read |-> cachedRead, mark |-> invalMark]
            /\ pendingInval' = FALSE
            /\ UNCHANGED <<fetchStart, fetchRead, readCtr>>
       ELSE /\ bpc' = [bpc EXCEPT ![b] = "fetching"]
            /\ onPaid' = [onPaid EXCEPT ![b] = TRUE]
            /\ fetchStart' = [fetchStart EXCEPT ![b] = bnow]
            /\ readCtr' = readCtr + 1
            /\ fetchRead' = [fetchRead EXCEPT ![b] = readCtr + 1]
            /\ lastCheck' = [called |-> TRUE, afterInval |-> pendingInval,
                             read |-> readCtr + 1, mark |-> invalMark]
            /\ pendingInval' = FALSE
    /\ UNCHANGED <<cachedBalance, cachedAt, bnow, cachedRead, invalMark>>
    /\ UNCHANGED <<dedupVars, fbVars, payVars, cacheVars, streamVars, sessVars, lateVars>>

\* The RPC read returns: checkBalance stores the balance with the time it
\* captured before the await, and the handler decides on the downgrade.
BalFetchReturns(b, balance) ==
    /\ bpc[b] = "fetching"
    /\ cachedBalance' = balance
    /\ cachedAt' = fetchStart[b]
    /\ cachedRead' = fetchRead[b]
    /\ onPaid' = [onPaid EXCEPT ![b] = ~Downgrade(balance, estimatedCostMicros[b])]
    /\ bpc' = [bpc EXCEPT ![b] = "attempt"]
    /\ fetchStart' = [fetchStart EXCEPT ![b] = 0]
    /\ fetchRead' = [fetchRead EXCEPT ![b] = 0]
    /\ lastCheck' = NoCheck
    /\ lastFinish' = NoFinish
    /\ UNCHANGED <<estimatedCostMicros, bnow, readCtr, invalMark, pendingInval>>
    /\ UNCHANGED <<dedupVars, fbVars, payVars, cacheVars, streamVars, sessVars, lateVars>>

\* The RPC read fails: the RpcError leaves the handler from outside its try
\* block.
BalFetchThrows(b) ==
    /\ bpc[b] = "fetching"
    /\ bpc' = [bpc EXCEPT ![b] = "done"]
    /\ fetchStart' = [fetchStart EXCEPT ![b] = 0]
    /\ fetchRead' = [fetchRead EXCEPT ![b] = 0]
    /\ lastCheck' = NoCheck
    /\ lastFinish' = [kind |-> "throw", onPaid |-> FALSE, downgraded |-> FALSE,
                      est |-> estimatedCostMicros[b],
                      before |-> cachedBalance, after |-> cachedBalance]
    /\ UNCHANGED <<estimatedCostMicros, onPaid, cachedBalance, cachedAt, bnow, readCtr,
                   cachedRead, invalMark, pendingInval>>
    /\ UNCHANGED <<dedupVars, fbVars, payVars, cacheVars, streamVars, sessVars, lateVars>>

Finished(b, kind, after) ==
    [kind |-> kind, onPaid |-> onPaid[b],
     downgraded |-> estimatedCostMicros[b] # NoEstimate /\ ~onPaid[b],
     est |-> estimatedCostMicros[b], before |-> cachedBalance, after |-> after]

\* The upstream answered and the response was relayed: the end of the try
\* block deducts the estimate when there is one.
BalSuccess(b) ==
    /\ bpc[b] = "attempt"
    /\ cachedBalance' = IF estimatedCostMicros[b] # NoEstimate
                        THEN deductEstimated(cachedBalance, estimatedCostMicros[b])
                        ELSE cachedBalance
    /\ bpc' = [bpc EXCEPT ![b] = "done"]
    /\ lastFinish' = Finished(b, "success", cachedBalance')
    /\ lastCheck' = NoCheck
    /\ UNCHANGED <<estimatedCostMicros, onPaid, fetchStart, fetchRead, cachedAt, bnow,
                   readCtr, cachedRead, invalMark, pendingInval>>
    /\ UNCHANGED <<dedupVars, fbVars, payVars, cacheVars, streamVars, sessVars, lateVars>>

\* Every candidate failed: the handler writes the error response and returns.
BalErrorResponse(b) ==
    /\ bpc[b] = "attempt"
    /\ bpc' = [bpc EXCEPT ![b] = "done"]
    /\ lastFinish' = Finished(b, "error", cachedBalance)
    /\ lastCheck' = NoCheck
    /\ UNCHANGED <<estimatedCostMicros, onPaid, fetchStart, fetchRead, cachedBalance,
                   cachedAt, bnow, readCtr, cachedRead, invalMark, pendingInval>>
    /\ UNCHANGED <<dedupVars, fbVars, payVars, cacheVars, streamVars, sessVars, lateVars>>

\* Something threw inside the try block: the catch invalidates the monitor.
BalCatch(b) ==
    /\ bpc[b] = "attempt"
    /\ bpc' = [bpc EXCEPT ![b] = "done"]
    /\ cachedBalance' = NullBalance
    /\ cachedAt' = 0
    /\ cachedRead' = 0
    /\ invalMark' = readCtr
    /\ pendingInval' = TRUE
    /\ lastFinish' = Finished(b, "throw", NullBalance)
    /\ lastCheck' = NoCheck
    /\ UNCHANGED <<estimatedCostMicros, onPaid, fetchStart, fetchRead, bnow, readCtr>>
    /\ UNCHANGED <<dedupVars, fbVars, payVars, cacheVars, streamVars, sessVars, lateVars>>

\* The cache lifetime passes.
BalTick ==
    /\ bnow < (1 + MaxBalTicks) * CACHE_TTL_MS
    /\ bnow' = bnow + CACHE_TTL_MS
    /\ lastCheck' = NoCheck
    /\ lastFinish' = NoFinish
    /\ UNCHANGED <<bpc, estimatedCostMicros, onPaid, fetchStart, fetchRead, cachedBalance,
                   cachedAt, readCtr, cachedRead, invalMark, pendingInval>>
    /\ UNCHANGED <<dedupVars, fbVars, payVars, cacheVars, streamVars, sessVars, lateVars>>

(***************************************************************************)
(* Part 7.  The session pin (SpecSession)                                  *)
(*                                                                         *)
(* Chat-completion requests that name a routing profile, through the       *)
(* routing section of proxyRequest, with the SessionStore and a clock.     *)
(* An entry is modelled by its model and lastUsedAt; tier, createdAt and   *)
(* requestCount are never read by the handler.                             *)
(***************************************************************************)
MaxSessTicks == 3
timeoutMs == 1800000
SessionIds == {"s1", "s2"}
NoSessionId == "none"
\* models the classifier may select
RoutedModels == {"m1", "m2"}
Profiles == {"free", "auto", "premium"}
NoSession == [model |-> "none", lastUsedAt |-> 0]
NoRoute ==
    [kind |-> "none", profile |-> "none", sid |-> NoSessionId, live |-> FALSE,
     pinned |-> "none", classified |-> FALSE, model |-> "none", routed |-> "none"]

\* getSession with the timeout reached at idle = timeoutMs
getSession_ExpireAtTimeout(ss, enabled, sid, t) ==
    IF ~enabled \/ sid = NoSessionId \/ ss[sid] = NoSession
    THEN [entry |-> NoSession, sessions |-> ss]
    ELSE IF t - ss[sid].lastUsedAt >= timeoutMs
    THEN [entry |-> NoSession, sessions |-> [ss EXCEPT ![sid] = NoSession]]
    ELSE [entry |-> ss[sid], sessions |-> ss]

\* the entry returned (NoSession: undefined) and the map left behind
getSession(ss, enabled, sid, t) ==
    IF ~enabled \/ sid = NoSessionId \/ ss[sid] = NoSession
    THEN [entry |-> NoSession, sessions |-> ss]
    ELSE IF t - ss[sid].lastUsedAt > timeoutMs
    THEN [entry |-> NoSession, sessions |-> [ss EXCEPT ![sid] = NoSession]]
    ELSE [entry |-> ss[sid], sessions |-> ss]

setSession(ss, enabled, sid, model, t) ==
    IF ~enabled \/ sid = NoSessionId
    THEN ss
    ELSE [ss EXCEPT ![sid] = [model |-> model, lastUsedAt |-> t]]

touchSession(ss, enabled, sid, t) ==
    IF ~enabled \/ sid = NoSessionId \/ ss[sid] = NoSession
    THEN ss
    ELSE [ss EXCEPT ![sid] = [@ EXCEPT !.lastUsedAt = t]]

cleanup(ss, t) ==
    [id \in SessionIds |->
        IF ss[id] # NoSession /\ t - ss[id].lastUsedAt > timeoutMs
        THEN NoSession ELSE ss[id]]

\* the session of sid is live: it exists and its idle time is not above
\* the timeout
IsLive(ss, sid, t) ==
    /\ sid # NoSessionId
    /\ ss[sid] # NoSession
    /\ t - ss[sid].lastUsedAt <= timeoutMs

InitSession(enabled) ==
    /\ sessEnabled = enabled
    /\ sessions = [id \in SessionIds |-> NoSession]
    /\ snow = timeoutMs
    /\ lastRoute = NoRoute

\* A chat completion whose model names a routing profile.  sid: the session
\* header (NoSessionId: absent); routed: the model route() selects for this
\* request if it is asked.
RouteRequest(profile, sid, routed) ==
    LET g == getSession(sessions, sessEnabled, sid, snow)
        seen == [kind |-> "routed", profile |-> profile, sid |-> sid,
                 live |-> IsLive(sessions, sid, snow),
                 pinned |-> IF sid = NoSessionId THEN "none" ELSE sessions[sid].model,
                 classified |-> FALSE, model |-> "none", routed |-> routed]
    IN  /\ IF profile = "free"
           THEN /\ sessions' = sessions
                /\ lastRoute' = [seen EXCEPT !.model = FREE_MODEL]
           ELSE IF g.entry # NoSession
           THEN /\ sessions' = touchSession(g.sessions, sessEnabled, sid, snow)
                /\ lastRoute' = [seen EXCEPT !.model = g.entry.model]
           ELSE /\ sessions' = setSession(g.sessions, sessEnabled, sid, routed, snow)
                /\ lastRoute' = [seen EXCEPT !.model = routed, !.classified = TRUE]
        /\ UNCHANGED <<sessEnabled, snow>>
        /\ UNCHANGED <<dedupVars, fbVars, payVars, cacheVars, streamVars, balVars, lateVars>>

\* The cleanup timer of an enabled store fires.
SessCleanup ==
    /\ sessEnabled
    /\ sessions' = cleanup(sessions, snow)
    /\ lastRoute' = NoRoute
    /\ UNCHANGED <<sessEnabled, snow>>
    /\ UNCHANGED <<dedupVars, fbVars, payVars, cacheVars, streamVars, balVars, lateVars>>

\* Time passes: one session timeout.
SessTick ==
    /\ snow < (1 + MaxSessTicks) * timeoutMs
    /\ snow' = snow + timeoutMs
    /\ lastRoute' = NoRoute
    /\ UNCHANGED <<sessEnabled, sessions>>
    /\ UNCHANGED <<dedupVars, fbVars, payVars, cacheVars, streamVars, balVars, lateVars>>

(***************************************************************************)
(* Part 8.  Binding the port (SpecListen)                                  *)
(*                                                                         *)
(* startProxy from its first line to the end of the listen retry loop.     *)
(* The environment chooses what each server.listen call does and what      *)
(* each GET /health returns.                                               *)
(***************************************************************************)
PORT_RETRY_ATTEMPTS == 5
NoWallet == "none"
NoError == "none"
\* what fetch(/health) can bring back: it throws (refused or aborted after
\* HEALTH_CHECK_TIMEOUT_MS), or answers with a status and a JSON body
HealthResponses ==
    { [thrown |-> TRUE,  ok |-> FALSE, status |-> "none",  wallet |-> NoWallet],
      [thrown |-> FALSE, ok |-> FALSE, status |-> "ok",    wallet |-> "0xA"],
      [thrown |-> FALSE, ok |-> TRUE,  status |-> "error", wallet |-> "0xA"],
      [thrown |-> FALSE, ok |-> TRUE,  status |-> "ok",    wallet |-> NoWallet],
      [thrown |-> FALSE, ok |-> TRUE,  status |-> "ok",    wallet |-> "0xA"],
      [thrown |-> FALSE, ok |-> TRUE,  status |-> "ok",    wallet |-> "0xB"] }
ListenOutcomes == {"listening", "EADDRINUSE", "EACCES"}
NoListenResult == [kind |-> "none", wallet |-> NoWallet, error |-> NoError]

\* the wallet of the instance that answered, NoWallet for undefined
checkExistingProxy(response) ==
    IF ~response.thrown /\ response.ok /\ response.status = "ok"
    THEN response.wallet
    ELSE NoWallet

\* onError with the retry test passing on every attempt
onError_AlwaysRetry(code, existingWallet2, n) ==
    IF code = "EADDRINUSE"
    THEN IF existingWallet2 # NoWallet
         THEN [code |-> "REUSE_EXISTING", wallet |-> existingWallet2]
         ELSE [code |-> "RETRY", wallet |-> NoWallet]
    ELSE [code |-> code, wallet |-> NoWallet]

\* what tryListen(n) rejects with, given the listen error and the probe
onError(code, existingWallet2, n) ==
    IF code = "EADDRINUSE"
    THEN IF existingWallet2 # NoWallet
         THEN [code |-> "REUSE_EXISTING", wallet |-> existingWallet2]
         ELSE IF n < PORT_RETRY_ATTEMPTS
         THEN [code |-> "RETRY", wallet |-> NoWallet]
         ELSE [code |-> code, wallet |-> NoWallet]
    ELSE [code |-> code, wallet |-> NoWallet]

InitListen ==
    /\ lpc = "precheck"
    /\ attempt = 0
    /\ listens = <<>>
    /\ probes = <<>>
    /\ waits = 0
    /\ listenError = NoError
    /\ lResult = NoListenResult

\* the loop is left without a return: throw lastError if there is one,
\* otherwise go on as the listening server
AfterLoop(err) ==
    IF err # NoError
    THEN [kind |-> "throw", wallet |-> NoWallet, error |-> err]
    ELSE [kind |-> "ready", wallet |-> NoWallet, error |-> NoError]

\* The catch of the loop for the rejection rej of tryListen(attempt).
Rejected(rej) ==
    IF rej.code = "REUSE_EXISTING" /\ rej.wallet # NoWallet
    THEN /\ lpc' = "done"
         /\ lResult' = [kind |-> "reuse", wallet |-> rej.wallet, error |-> NoError]
         /\ UNCHANGED <<attempt, listenError>>
    ELSE IF rej.code = "RETRY"
    THEN /\ lpc' = "wait"
         /\ UNCHANGED <<attempt, listenError, lResult>>
    ELSE /\ listenError' = rej.code
         /\ lpc' = "done"
         /\ lResult' = AfterLoop(rej.code)
         /\ UNCHANGED attempt

\* The pre-check: the /health probe made before anything is built.
PreCheck(response) ==
    /\ lpc = "precheck"
    /\ probes' = Append(probes, response)
    /\ IF checkExistingProxy(response) # NoWallet
       THEN /\ lpc' = "done"
            /\ lResult' = [kind |-> "reuse", wallet |-> checkExistingProxy(response),
                           error |-> NoError]
            /\ UNCHANGED attempt
       ELSE /\ lpc' = "listen"
            /\ attempt' = 1
            /\ UNCHANGED lResult
    /\ UNCHANGED <<listens, waits, listenError>>
    /\ UNCHANGED earlyVars
    /\ UNCHANGED pureVars

\* server.listen of tryListen(attempt) succeeds or emits an error; an error
\* other than EADDRINUSE rejects at once, EADDRINUSE starts the probe.
Listen(outcome) ==
    /\ lpc = "listen"
    /\ listens' = Append(listens, outcome)
    /\ IF outcome = "listening"
       THEN /\ lpc' = "done"
            /\ lResult' = AfterLoop(listenError)
            /\ UNCHANGED <<attempt, listenError>>
       ELSE IF outcome = "EADDRINUSE"
       THEN /\ lpc' = "probe"
            /\ UNCHANGED <<attempt, listenError, lResult>>
       ELSE Rejected(onError(outcome, NoWallet, attempt))
    /\ UNCHANGED <<probes, waits>>
    /\ UNCHANGED earlyVars
    /\ UNCHANGED pureVars

\* The probe of onError returns.
Probe(response) ==
    /\ lpc = "probe"
    /\ probes' = Append(probes, response)
    /\ Rejected(onError("EADDRINUSE", checkExistingProxy(response), attempt))
    /\ UNCHANGED <<listens, waits>>
    /\ UNCHANGED earlyVars
    /\ UNCHANGED pureVars

\* The retry delay is over: the loop increments attempt and tests it.
RetryDelay ==
    /\ lpc = "wait"
    /\ waits' = waits + 1
    /\ attempt' = attempt + 1
    /\ IF attempt + 1 <= PORT_RETRY_ATTEMPTS
       THEN /\ lpc' = "listen"
            /\ UNCHANGED lResult
       ELSE /\ lpc' = "done"
            /\ lResult' = AfterLoop(listenError)
    /\ UNCHANGED <<listens, probes, listenError>>
    /\ UNCHANGED earlyVars
    /\ UNCHANGED pureVars

\* no pure function in hand
InitPure ==
    /\ arg = "none"
    /\ applied = FALSE
    /\ returned = "none"

InitLate == InitListen /\ InitPure

\* every machine at its start, no pure function in hand
InitMachines ==
    /\ InitDedup /\ InitFallback /\ InitPay /\ InitStream /\ InitBalance /\ InitListen
    /\ InitSession(FALSE)
    /\ InitCache([maxSize |-> MaxCacheSize, enabled |-> TRUE])

(***************************************************************************)
(* Part 9.  Model alias resolution (SpecAlias)                             *)
(*                                                                         *)
(* A model string is a sequence of tokens: whitespace, the brand prefix,   *)
(* names in lower and in mixed case.  trim, toLowerCase, startsWith and    *)
(* slice act on the tokens as the string methods act on the characters.    *)
(***************************************************************************)
MaxModelTokens == 3
ModelTokens ==
    {" ", "blockrun/", "claude", "Claude", "anthropic/claude-sonnet-4.6", "foo", "Foo",
     "constructor"}
RECURSIVE StringsUpTo(_)
StringsUpTo(n) ==
    IF n = 0 THEN {<<>>}
    ELSE LET shorter == StringsUpTo(n - 1)
         IN  shorter \cup {Append(x, t) : x \in shorter, t \in ModelTokens}
ModelStrings == StringsUpTo(MaxModelTokens)

\* a value that is not a string (Object.prototype.constructor), and the
\* TypeError thrown by model.trim() on it
NotAString == <<"[Function: Object]">>
ThrownTypeError == <<"TypeError">>

toLowerCase(x) ==
    [i \in 1 .. Len(x) |->
        CASE x[i] = "Claude" -> "claude"
          [] x[i] = "Foo" -> "foo"
          [] OTHER -> x[i]]

RECURSIVE trimStart(_)
trimStart(x) == IF x # <<>> /\ Head(x) = " " THEN trimStart(Tail(x)) ELSE x

RECURSIVE trimEnd(_)
trimEnd(x) ==
    IF x # <<>> /\ x[Len(x)] = " " THEN trimEnd(SubSeq(x, 1, Len(x) - 1)) ELSE x

trim(x) == trimEnd(trimStart(x))

\* MODEL_ALIASES[key]: an own entry, a property inherited from
\* Object.prototype, or undefined (<<>>)
MODEL_ALIASES(key) ==
    CASE key = <<"claude">> -> <<"anthropic/claude-sonnet-4.6">>
      [] key = <<"constructor">> -> NotAString
      [] OTHER -> <<>>

resolveModelAlias(model) ==
    IF model \in {NotAString, ThrownTypeError}
    THEN ThrownTypeError
    ELSE LET normalized == toLowerCase(trim(model))
             resolved == MODEL_ALIASES(normalized)
         IN  IF resolved # <<>> THEN resolved
             ELSE IF normalized # <<>> /\ Head(normalized) = "blockrun/"
             THEN LET withoutPrefix == Tail(normalized)
                      resolvedWithoutPrefix == MODEL_ALIASES(withoutPrefix)
                  IN  IF resolvedWithoutPrefix # <<>> THEN resolvedWithoutPrefix
                      ELSE withoutPrefix
             ELSE model

InitAlias ==
    /\ InitMachines
    /\ arg \in ModelStrings
    /\ applied = FALSE
    /\ returned = "none"

\* resolve the string, and resolve what came out
ResolveTwice ==
    /\ ~applied
    /\ applied' = TRUE
    /\ returned' = [once |-> resolveModelAlias(arg),
                    twice |-> resolveModelAlias(resolveModelAlias(arg))]
    /\ UNCHANGED arg
    /\ UNCHANGED <<earlyVars, listenVars>>


(***************************************************************************)
(* Part 10.  The dedup key (SpecCanon)                                     *)
(*                                                                         *)
(* A request body is the JSON text of an object; it is represented by what *)
(* it parses into: the order of its keys and the value under each key.     *)
(* The keys are model, messages (an array of message objects with role     *)
(* and content) and content.  A string under content is a sequence of      *)
(* tokens: a timestamp with the white space after it, or plain text.       *)
(***************************************************************************)
MaxContentTokens == 2
MaxMessages == 1
TIMESTAMP == "[Mon 2024-01-01 10:00 UTC] "
ContentTokens == {TIMESTAMP, "hi"}
RECURSIVE ContentsUpTo(_)
ContentsUpTo(n) ==
    IF n = 0 THEN {<<>>}
    ELSE LET shorter == ContentsUpTo(n - 1)
         IN  shorter \cup {Append(x, t) : x \in shorter, t \in ContentTokens}
ContentStrings == ContentsUpTo(MaxContentTokens)

\* the orders in which distinct keys of K can appear in an object
KeyOrders(K) ==
    UNION {{ks \in [1 .. n -> K] : \A i, j \in 1 .. n : ks[i] = ks[j] => i = j} :
              n \in 0 .. Cardinality(K)}

HasKey(o, key) == \E i \in 1 .. Len(o.keys) : o.keys[i] = key

MessageObjects ==
    {m \in [keys : KeyOrders({"role", "content"}), content : ContentStrings] :
        ~HasKey(m, "content") => m.content = <<>>}

MessageArrays ==
    UNION {[1 .. n -> MessageObjects] : n \in 0 .. MaxMessages}

\* valid = FALSE: the text is no JSON
Bodies ==
    {b \in [valid : BOOLEAN, keys : KeyOrders({"model", "messages", "content"}),
            content : ContentStrings, messages : MessageArrays] :
        /\ ~HasKey(b, "content") => b.content = <<>>
        /\ ~HasKey(b, "messages") => b.messages = <<>>
        /\ ~b.valid => (b.keys = <<>>)}

\* String.prototype.replace with the anchored, non-global TIMESTAMP_PATTERN
replaceTimestamp(value) ==
    IF value # <<>> /\ Head(value) = TIMESTAMP THEN Tail(value) ELSE value

stripMessage(m) ==
    [m EXCEPT !.content = IF HasKey(m, "content") THEN replaceTimestamp(@) ELSE @]

stripTimestamps(b) ==
    [b EXCEPT !.content = IF HasKey(b, "content") THEN replaceTimestamp(@) ELSE @,
              !.messages = [i \in 1 .. Len(@) |-> stripMessage(@[i])]]

\* position of a key in the order of Array.prototype.sort (UTF-16 code units)
KeyRank(key) ==
    CASE key = "content" -> 1
      [] key = "messages" -> 2
      [] key = "model" -> 3
      [] key = "role" -> 4

sortKeys(ks) ==
    [i \in 1 .. Len(ks) |->
        CHOOSE k \in {ks[j] : j \in 1 .. Len(ks)} :
            Cardinality({j \in 1 .. Len(ks) : KeyRank(ks[j]) < KeyRank(k)}) = i - 1]

canonicalizeMessage(m) == [m EXCEPT !.keys = sortKeys(@)]

canonicalize(b) ==
    [b EXCEPT !.keys = sortKeys(@),
              !.messages = [i \in 1 .. Len(@) |-> canonicalizeMessage(@[i])]]

\* the content RequestDeduplicator.hash digests: the stringified canonical
\* form, or the body itself when it does not parse
canon(body) ==
    IF body.valid THEN canonicalize(stripTimestamps(body)) ELSE body

\* SHA-256 of the content, first 16 hex digits (taken as collision-free)
sha256(content) == [digest |-> content]

InitCanon ==
    /\ InitMachines
    /\ arg \in Bodies
    /\ applied = FALSE
    /\ returned = "none"

\* the key of the canonical form, and of the canonical form of that
CanonTwice ==
    /\ ~applied
    /\ applied' = TRUE
    /\ returned' = [once |-> sha256(canon(arg)), twice |-> sha256(canon(canon(arg)))]
    /\ UNCHANGED arg
    /\ UNCHANGED <<earlyVars, listenVars>>

(***************************************************************************)
(* Part 11.  The routing decision's cost figures (SpecSavings)             *)
(*                                                                         *)
(* Prices are in hundredths of a dollar per million tokens, costs in       *)
(* hundredths of a dollar times 10^6, so that every figure is an integer;  *)
(* the savings ratio is kept as numerator and denominator.                 *)
(***************************************************************************)
BASELINE_MODEL_ID == "anthropic/claude-opus-4-5"

\* buildModelPricing(): id -> prices for the models of BLOCKRUN_MODELS that
\* the tier tables name as primary; get() of any other id is undefined
modelPricing ==
    [m \in {"moonshot/kimi-k2.5", "xai/grok-code-fast-1", "google/gemini-3.1-pro-preview",
            "xai/grok-4-1-fast-reasoning", "nvidia/gpt-oss-120b",
            "google/gemini-2.5-flash-lite", "openai/gpt-5.2-codex",
            "anthropic/claude-opus-4.6", "anthropic/claude-sonnet-4.6"} |->
        CASE m = "moonshot/kimi-k2.5" -> [inputPrice |-> 60, outputPrice |-> 300]
          [] m = "xai/grok-code-fast-1" -> [inputPrice |-> 20, outputPrice |-> 150]
          [] m = "google/gemini-3.1-pro-preview" -> [inputPrice |-> 200, outputPrice |-> 1200]
          [] m = "xai/grok-4-1-fast-reasoning" -> [inputPrice |-> 20, outputPrice |-> 50]
          [] m = "nvidia/gpt-oss-120b" -> [inputPrice |-> 0, outputPrice |-> 0]
          [] m = "google/gemini-2.5-flash-lite" -> [inputPrice |-> 10, outputPrice |-> 40]
          [] m = "openai/gpt-5.2-codex" -> [inputPrice |-> 175, outputPrice |-> 1400]
          [] m = "anthropic/claude-opus-4.6" -> [inputPrice |-> 500, outputPrice |-> 2500]
          [] m = "anthropic/claude-sonnet-4.6" -> [inputPrice |-> 300, outputPrice |-> 1500]]

\* pricing?.inputPrice ?? 0 and pricing?.outputPrice ?? 0
PriceOf(pricing, m) ==
    IF m \in DOMAIN pricing THEN pricing[m] ELSE [inputPrice |-> 0, outputPrice |-> 0]

\* the tier table route() selects from
RouteTierConfigs(profile, level) ==
    IF profile = "eco" THEN ecoTiers
    ELSE IF profile = "premium" THEN premiumTiers
    ELSE IF level = "high" THEN agenticTiers
    ELSE tiers

selectModel(tier, tierConfigs, pricing, estimatedInputTokens, maxOutputTokens, routingProfile) ==
    LET model == tierConfigs[tier].primary
        own == PriceOf(pricing, model)
        costEstimate == estimatedInputTokens * own.inputPrice
                          + maxOutputTokens * own.outputPrice
        opusPricing == PriceOf(pricing, BASELINE_MODEL_ID)
        baselineCost == estimatedInputTokens * opusPricing.inputPrice
                          + maxOutputTokens * opusPricing.outputPrice
        savings == IF routingProfile = "premium" THEN [num |-> 0, den |-> 1]
                   ELSE IF baselineCost > 0
                   THEN [num |-> IF baselineCost - costEstimate > 0
                                 THEN baselineCost - costEstimate ELSE 0,
                         den |-> baselineCost]
                   ELSE [num |-> 0, den |-> 1]
    IN  [model |-> model, tier |-> tier, costEstimate |-> costEstimate,
         baselineCost |-> baselineCost, savings |-> savings]

\* what route() hands to selectModel: the profile, the classifier's agentic
\* signal and tier, ceil(fullText.length / 4) and max_tokens
SavingsInputs ==
    [profile : {"auto", "eco", "premium"}, level : {"none", "light", "high"}, tier : Tiers,
     estimatedTokens : {1, 12, 4000}, maxOutputTokens : {1, 4096, 16384}]

InitSavings ==
    /\ InitMachines
    /\ arg \in SavingsInputs
    /\ applied = FALSE
    /\ returned = "none"

\* route() reaches selectModel
SelectModel ==
    /\ ~applied
    /\ applied' = TRUE
    /\ returned' = selectModel(arg.tier, RouteTierConfigs(arg.profile, arg.level),
                               modelPricing, arg.estimatedTokens, arg.maxOutputTokens,
                               arg.profile)
    /\ UNCHANGED arg
    /\ UNCHANGED <<earlyVars, listenVars>>

(***************************************************************************)
(* Specifications                                                          *)
(***************************************************************************)

Init ==
    /\ InitDedup /\ InitFallback /\ InitPay /\ InitStream /\ InitBalance /\ InitLate
    /\ InitSession(FALSE)
    /\ InitCache([maxSize |-> MaxCacheSize, enabled |-> TRUE])

\* Concurrent requests with one body through the deduplicator.
Next ==
    \/ \E r \in Reqs : Arrive(r)
    \/ \E r \in Reqs : BalanceChecked(r)
    \/ \E r \in Reqs : BalanceThrows(r)
    \/ \E r \in Reqs : RequestFails(r)
    \/ \E r \in Reqs, store \in BOOLEAN : RequestSucceeds(r, store)
    \/ \E r \in Reqs : UpstreamReadThrows(r)
    \/ \E r \in Reqs : ClientClose(r)
    \/ \E r \in Reqs : ResponseClosed(r)
    \/ TtlElapse

Spec == Init /\ [][Next]_vars

\* One request, any input, from its arrival to its response.
NextFallback ==
    \/ \E r \in RequestInputs : runs = 0 /\ StartRequest(r)
    \/ \E b \in BalanceOutcomes : BalanceResult(b)
    \/ BalanceRpcError
    \/ \E o \in UpstreamOutcomes : AttemptReturns(o)
    \/ TimeoutFires

SpecFallback == Init /\ [][NextFallback]_vars

\* Successive routed requests while time passes.
NextRateLimit ==
    \/ \E r \in RateLimitInputs : runs < MaxRuns /\ StartRequest(r)
    \/ \E b \in BalanceOutcomes : BalanceResult(b)
    \/ \E o \in RateLimitOutcomes : AttemptReturns(o)
    \/ Tick

SpecRateLimit == Init /\ [][NextRateLimit]_vars

\* Successive payFetch calls against a server answering anything.
NextPay ==
    \/ \E preAuth \in BOOLEAN : PayStart(preAuth)
    \/ \E rsp \in PayReplies : PayReply(rsp)
    \/ PaymentTtlElapse

SpecPay == Init /\ [][NextPay]_vars

\* Response caches of every configuration, used directly.
InitAnyCache ==
    /\ InitDedup /\ InitFallback /\ InitPay /\ InitStream /\ InitBalance /\ InitLate
    /\ InitSession(FALSE)
    /\ \E cfg \in CacheConfigs : InitCache(cfg)

NextCache ==
    \/ \E key \in DirectKeys, status \in {200, 400}, size \in CacheSizes, ttl \in CacheTTLs :
            Set(key, status, size, ttl)
    \/ \E key \in DirectKeys : Get(key)
    \/ Clear
    \/ CacheTick

SpecCache == InitAnyCache /\ [][NextCache]_vars

\* Chat-completion requests going through the proxy's lookup and store.
NextProxyCache ==
    \/ \E request \in ProxiedRequests : ProxyLookup(request)
    \/ \E status \in {200, 500}, size \in CacheSizes : ProxyStore(status, size)
    \/ CacheTick

InitProxyCache ==
    /\ InitDedup /\ InitFallback /\ InitPay /\ InitStream /\ InitBalance /\ InitLate
    /\ InitSession(FALSE)
    /\ \E enabled \in BOOLEAN : InitCache([maxSize |-> MaxCacheSize, enabled |-> enabled])

SpecProxyCache == InitProxyCache /\ [][NextProxyCache]_vars

\* One streaming request, its client, its ticker and its timeout.
NextStream ==
    \/ StreamArrive
    \/ \E ok \in BOOLEAN, n \in 1..MaxStreamCandidates : StreamBalance(ok, n)
    \/ HeartbeatTick
    \/ StreamClientClose
    \/ StreamTimeout
    \/ \E o \in {"ok", "provider", "other"} : StreamAttempt(o)
    \/ \E kind \in {"ok", "throw", "lateThrow"}, n \in 0..MaxChunks : StreamBody(kind, n)

SpecStream == Init /\ [][NextStream]_vars

\* The deduplicated requests of Spec, with a graceful shutdown at any moment.
NextShutdown ==
    \/ Next
    \/ Shutdown

SpecShutdown == Init /\ [][NextShutdown]_vars

\* The deduplicated requests of Spec, streaming and non-streaming mixed.
InitAnyFormat ==
    /\ InitFormat /\ InitFallback /\ InitPay /\ InitStream /\ InitBalance /\ InitLate
    /\ InitSession(FALSE)
    /\ InitCache([maxSize |-> MaxCacheSize, enabled |-> TRUE])

SpecFormat == InitAnyFormat /\ [][Next]_vars

\* Requests against the balance monitor.
NextBalance ==
    \/ \E b \in BalReqs, paid \in BOOLEAN, est \in Estimates \cup {NoEstimate} :
          BalArrive(b, paid, est)
    \/ \E b \in BalReqs, balance \in Balances : BalFetchReturns(b, balance)
    \/ \E b \in BalReqs : BalFetchThrows(b)
    \/ \E b \in BalReqs : BalSuccess(b)
    \/ \E b \in BalReqs : BalErrorResponse(b)
    \/ \E b \in BalReqs : BalCatch(b)
    \/ BalTick

SpecBalance == Init /\ [][NextBalance]_vars

\* Profile-routed requests against a session store of either configuration.
InitAnySession ==
    /\ InitDedup /\ InitFallback /\ InitPay /\ InitStream /\ InitBalance /\ InitLate
    /\ InitCache([maxSize |-> MaxCacheSize, enabled |-> TRUE])
    /\ \E enabled \in BOOLEAN : InitSession(enabled)

NextSession ==
    \/ \E profile \in Profiles, sid \in SessionIds \cup {NoSessionId},
          routed \in RoutedModels : RouteRequest(profile, sid, routed)
    \/ SessCleanup
    \/ SessTick

SpecSession == InitAnySession /\ [][NextSession]_vars

\* startProxy binding its port.
NextListen ==
    \/ \E response \in HealthResponses : PreCheck(response)
    \/ \E outcome \in ListenOutcomes : Listen(outcome)
    \/ \E response \in HealthResponses : Probe(response)
    \/ RetryDelay

SpecListen == Init /\ [][NextListen]_vars

\* Alias resolution of any model string.
NextAlias == ResolveTwice

SpecAlias == InitAlias /\ [][NextAlias]_vars

\* The dedup key of any request body.
NextCanon == CanonTwice

SpecCanon == InitCanon /\ [][NextCanon]_vars

\* The cost figures of any routing decision.
NextSavings == SelectModel

SpecSavings == InitSavings /\ [][NextSavings]_vars

(***************************************************************************)
(* Properties of the deduplicator (Spec)                                   *)
(***************************************************************************)

\* C1, as stated: an entry registered by a request is completed or removed by
\* that request on every path of its handler, so once the handler of a
\* request has returned no in-flight entry registered by it is left behind.
C1_EntrySettledByOriginator ==
    \A r \in Reqs :
        pc[r] = "done" => ~(inflight.present /\ inflight.owner = r)

C3_ResolvedByJoinedOriginator ==
    \A w \in Reqs :
        (joined[w] # 0 /\ pc[w] = "done") => wokenBy[w] = joined[w]

(***************************************************************************)
(* Properties of one request's attempts (SpecFallback)                     *)
(***************************************************************************)

\* The candidate list has been built for the request in hand.
ListBuilt == fpc \in {"attempting", "done"} /\ (fpc = "done" => calls # <<>>)

\* C4, as stated: after a downgrade for an empty wallet or an insufficient
\* balance every upstream attempt names the free model.
C4_DowngradedCallsFreeModel ==
    downgraded => \A i \in 1..Len(calls) : calls[i] = FREE_MODEL

\* C5: for a routed request the upstream calls are the candidates in list
\* order, each once; a success ends the loop with as many calls as the
\* position of the succeeding candidate; and when every attempt failed with
\* a provider error every candidate was called and the client got an error.
C5_InOrderUntilFirstSuccess ==
    req.kind = "routed" =>
        /\ Len(calls) <= Len(modelsToTry)
        /\ \A i \in 1..Len(calls) : calls[i] = modelsToTry[i]
        /\ upstreamOk => /\ fpc = "done"
                         /\ clientStatus = 200
                         /\ finalOutcome.kind = "ok"
        /\ (fpc = "done" /\ finalOutcome.kind = "ok") => upstreamOk
        /\ (fpc = "done" /\ ~upstreamOk /\ allProvider) =>
                /\ calls = modelsToTry
                /\ clientStatus >= 400

\* C5, its case: all five candidates of a routed request failed with
\* provider errors, the last one ending the loop.
C5_Witness ==
    /\ req.kind = "routed" /\ fpc = "done" /\ ~upstreamOk /\ allProvider
    /\ Len(calls) = MAX_FALLBACK_ATTEMPTS
    /\ calls = modelsToTry
    /\ clientStatus = 503

\* C6, as stated: a request that names an explicit model makes at most one
\* upstream call, whatever that call comes to.
C6_ExplicitModelOneCall ==
    req.kind = "explicit" => Len(calls) <= 1

FullChain == getFallbackChain(req.tier, ChainTierConfigs(req))

\* A model declares a context window of at least 1.1 x the estimated tokens.
DeclaresEnough(m) ==
    /\ m \in DOMAIN BLOCKRUN_MODELS
    /\ 10 * BLOCKRUN_MODELS[m] >= 11 * req.tokens

C9_Every429Marks ==
    (fpc = "done" /\ finalOutcome.kind = "http" /\ finalOutcome.status = 429)
        => isRateLimited(calls[Len(calls)], rateLimitedModels, now)

\* C11: a 200 detected as degraded is never answered as a success; it ends
\* the loop only as the last candidate's failure, the client then getting
\* the 503 of a provider error, and otherwise the next candidate is tried.
C11_DegradedIsProviderError ==
    (fpc = "done" /\ finalOutcome.kind = "degraded") =>
        /\ ~upstreamOk
        /\ clientStatus = 503
        /\ allProvider
        /\ Len(calls) = Len(modelsToTry)

\* C11, its case: the last of several candidates returned a degraded 200
\* and the client was answered 503.
C11_Witness ==
    /\ fpc = "done" /\ finalOutcome.kind = "degraded"
    /\ Len(calls) > 1 /\ Len(calls) = Len(modelsToTry)
    /\ clientStatus = 503 /\ ~upstreamOk

\* C12, as stated: a timeout that fired during one attempt aborts only that
\* attempt, so no attempt begins with its abort signal already aborted.
C12_AttemptsStartUnaborted ==
    fpc = "attempting" => ~startedAborted

\* C35: for a routed request that is not downgraded and whose chain loses
\* no model to the context filter, the first model called upstream is the
\* model the routing decision selected.
C35_FirstCallIsSelectedModel ==
    (/\ req.kind = "routed"
     /\ ~downgraded
     /\ calls # <<>>
     /\ getFallbackChainFiltered(req.tier, ChainTierConfigs(req), req.tokens)
            = getFallbackChain(req.tier, ChainTierConfigs(req)))
        => calls[1] = route(req.profile, req.level, req.tier).model

\* C35, where it holds: under the auto profile with no agentic signal, or
\* with a high one, the chain comes from the table the model was selected
\* from.
C35_FirstCallIsSelectedOnAuto ==
    (/\ req.kind = "routed"
     /\ req.profile = "auto"
     /\ req.level \in {"none", "high"}
     /\ ~downgraded
     /\ calls # <<>>
     /\ getFallbackChainFiltered(req.tier, ChainTierConfigs(req), req.tokens)
            = getFallbackChain(req.tier, ChainTierConfigs(req)))
        => calls[1] = route(req.profile, req.level, req.tier).model

(***************************************************************************)
(* Properties of the candidate order (SpecRateLimit)                       *)
(***************************************************************************)

\* C10: in the candidate list of a routed request no model marked less than
\* 60 s before the list was built precedes one that was not, the models of
\* each group keep the order of the chain, and when no model of the chain
\* was marked within the last 60 s the list is the chain in its own order.
C10_RateLimitedLast ==
    (ListBuilt /\ req.kind = "routed") =>
        LET Limited(m) == m \in limitedAtBuild
            Free(m) == m \notin limitedAtBuild
        IN  /\ \A i, j \in 1..Len(modelsToTry) :
                 (i < j /\ Limited(modelsToTry[i])) => Limited(modelsToTry[j])
            /\ SelectSeq(modelsToTry, Free) = SelectSeq(SlicedChain(req), Free)
            /\ SelectSeq(modelsToTry, Limited) = SelectSeq(SlicedChain(req), Limited)
            /\ (Range(SlicedChain(req)) \cap limitedAtBuild = {})
                 => modelsToTry = SlicedChain(req)

\* C10, its case: the primary of the chain was marked less than 60 s ago and
\* stands last in the list, while a model marked 60 s ago or more is back at
\* its place in the chain.
C10_Witness ==
    /\ ListBuilt /\ req.kind = "routed" /\ Len(modelsToTry) = 4
    /\ modelsToTry[4] = SlicedChain(req)[1]
    /\ modelsToTry[4] \in limitedAtBuild
    /\ modelsToTry[1] = SlicedChain(req)[2]
    /\ markedAt[modelsToTry[1]] # 0
    /\ modelsToTry[1] \notin limitedAtBuild


\* C26: right after a removeInflight call no in-flight entry and no waiting
\* request is left, and every request that was waiting on the entry has
\* been answered 503 dedup_origin_failed.
C26_RemoveInflightResolvesWaiters ==
    dedupCall.kind = "removeInflight" =>
        /\ ~inflight.present
        /\ \A r \in Reqs : pc[r] # "waiting"
        /\ \A w \in dedupCall.waiters : pc[w] = "done" /\ resp[w] = DedupOriginFailed

C26_Witness ==
    /\ dedupCall.kind = "removeInflight"
    /\ dedupCall.waiters # {}
    /\ \A w \in dedupCall.waiters : resp[w] = DedupOriginFailed

\* The close listener of request r runs in this step and deletes the entry.
CloseDeletesEntry(r) ==
    /\ closeState[r] = "armed"
    /\ closeState'[r] = "closed"
    /\ inflight.present
    /\ ~inflight'.present

\* C38, as stated: the close listener of a request deletes an in-flight entry
\* only if that request registered it and has not completed it; the close
\* event of a request that has answered, with a success or with an error,
\* leaves the entry of a later request in place.
C38_CloseRemovesOwnEntryOnly ==
    [][\A r \in Reqs :
          CloseDeletesEntry(r) => (inflight.owner = r /\ pc[r] # "done")]_vars

\* C39, as stated: the completed map never holds a failed outcome, and no
\* request is answered with the error of another request replayed from it.
C39_FailureNeverStored ==
    /\ completed.present => completed.result.kind # "upstream_error"
    /\ \A r \in Reqs :
          (pc[r] = "done" /\ joined[r] = 0 /\ resp[r].of \notin {0, r})
              => resp[r].kind # "upstream_error"

\* C30: while a model is in its cool-down, its rate-limit entry keeps the
\* hit time it has: no step, a further 429 included, moves it.
C30_CooldownFromFirst429 ==
    [][\A m \in Models :
          (rateLimitedModels[m] # 0 /\ now - rateLimitedModels[m] < RATE_LIMIT_COOLDOWN_MS)
              => rateLimitedModels'[m] = rateLimitedModels[m]]_vars

(***************************************************************************)
(* Claims checked under SpecShutdown                                       *)
(***************************************************************************)

\* C25: once close() has run no request is left waiting on an in-flight
\* entry.
C25_NoWaiterAfterShutdown ==
    shutdown => \A r \in Reqs : pc[r] # "waiting"

(***************************************************************************)
(* Claims checked under SpecPay                                            *)
(***************************************************************************)

SignedIndexes == {i \in 1..Len(sent) : sent[i].signed}
Is402(rsp, header) == rsp.kind = "http" /\ rsp.status = 402 /\ rsp.header = header

\* C13: on the normal path a payFetch call issues at most two HTTP requests:
\* the initial unsigned one and, only if that one was answered 402 with usable
\* payment requirements, exactly one signed retry, whose response is what the
\* call returns, whatever its status.
C13_NormalPathAtMostTwoRequests ==
    payPath = "normal" =>
        /\ Len(sent) \in {1, 2}
        /\ ~sent[1].signed
        /\ Len(sent) = 2 <=> (Len(replies) >= 1 /\ Is402(replies[1], "valid"))
        /\ Len(sent) = 2 => sent[2].signed
        /\ (ppc = "done" /\ Len(replies) = 2) => payResult = replies[2]

C13_Witness ==
    /\ payPath = "normal"
    /\ ppc = "done"
    /\ Len(sent) = 2
    /\ Len(replies) = 2
    /\ Is402(replies[2], "valid")
    /\ payResult = replies[2]

C15_CleanRetryAfterHeaderless402 ==
    /\ Len(sent) <= 3
    /\ (payPath = "preauth" /\ Len(replies) >= 1 /\ Is402(replies[1], "none")) =>
          /\ Len(sent) >= 2
          /\ ~sent[2].signed
          /\ ~sent[2].cached
          /\ Len(sent) = 3 <=> (Len(replies) >= 2 /\ Is402(replies[2], "valid"))
          /\ Len(sent) = 3 => sent[3].signed
          /\ (Len(replies) >= 2 /\ Is402(replies[2], "none")) =>
                (ppc = "done" /\ payResult = PayThrows)
          /\ (ppc = "done" /\ Len(replies) = 3) => payResult = replies[3]

C15_Witness ==
    /\ payPath = "preauth"
    /\ ppc = "done"
    /\ Len(replies) = 3
    /\ Is402(replies[1], "none")
    /\ Is402(replies[2], "valid")
    /\ Len(sent) = 3
    /\ payResult = replies[3]

\* C37, as stated: when handle402 has thrown on an invalid payTo or asset
\* address the payment cache holds no parameters for the endpoint, and no
\* pre-auth call ends without having sent an HTTP request.
C37_BadAddressNotCached ==
    /\ (ppc = "done" /\ replies # <<>> /\ Is402(replies[Len(replies)], "badaddress"))
          => paymentCache.state = "none"
    /\ (ppc = "done" /\ payPath = "preauth") => sent # <<>>

(***************************************************************************)
(* Claims checked under SpecProxyCache                                     *)
(***************************************************************************)

\* C16: the response cache holds and returns no entry whose status is 400
\* or more or whose body is longer than maxItemSize, and no request carrying
\* no-cache (in its cache-control header or in its body) is answered from it.
C16_NoErrorOversizeOrNoCacheHit ==
    /\ \A k \in CacheKeys :
          cache[k].present => cache[k].status < 400 /\ cache[k].size <= maxItemSize
    /\ lastLookup.hit =>
          /\ lastLookup.status < 400
          /\ lastLookup.size <= maxItemSize
          /\ ~lastLookup.hdrNoCache
          /\ ~lastLookup.bodyNoCache

C16_Witness ==
    /\ lastLookup.kind = "proxy"
    /\ lastLookup.hit
    /\ lastLookup.status = 200
    /\ ~lastLookup.stream

\* C17: no request with stream:true is answered from the response cache.
C17_HitsOnlyNonStreaming ==
    (lastLookup.kind = "proxy" /\ lastLookup.hit) => ~lastLookup.stream

\* C18: a request that disables caching neither is answered from the
\* response cache nor has its response added to it.
C18_NoCacheRequestLeavesCacheAlone ==
    /\ (lastLookup.kind = "proxy" /\ lastLookup.hit) =>
          ~(lastLookup.hdrNoCache \/ lastLookup.bodyNoCache)
    /\ \A k \in CacheKeys : ~cache[k].byNoCache

(***************************************************************************)
(* Claims checked under SpecCache                                          *)
(***************************************************************************)

\* C19: after any sequence of set, get, clear and clock advances the cache
\* holds at most maxSize entries (none when maxSize is 0).
C19_SizeWithinMaxSize == CacheSize(cache) <= config.maxSize

C19_Witness ==
    /\ lastEvict.ran
    /\ config.maxSize = MaxCacheSize
    /\ CacheSize(lastEvict.before) = config.maxSize
    /\ CacheSize(cache) = config.maxSize

StoredBefore == {k \in CacheKeys : lastEvict.before[k].present}
ExpiredBefore == {k \in StoredBefore : lastEvict.before[k].expiresAt <= lastEvict.at}
LiveBefore == StoredBefore \ ExpiredBefore
DroppedLive == {k \in LiveBefore : ~lastEvict.after[k].present}

Got(k) == cacheGet(k).entry

\* C21: get(key) returns nothing but the entry most recently stored under
\* key, and only while the clock is not past that store's expiry; it does
\* return it while the clock is before that expiry, unless the entry was
\* cleared or the second pass of evict deleted it.  A record of an earlier
\* store of the key does not make the first pass delete the newer entry.
C21_LatestStoreUntilItsExpiry ==
    \A k \in CacheKeys :
        /\ Got(k).present =>
              /\ latest[k].live
              /\ Got(k).expiresAt = latest[k].expiresAt
              /\ Got(k).size = latest[k].size
              /\ cnow <= Got(k).expiresAt
        /\ (latest[k].live /\ cnow < latest[k].expiresAt) => Got(k).present

\* A key stored twice, the second time for longer: the first store's record
\* had expired when evict met it, and get still returns the entry.
C21_Witness ==
    /\ lastEvict.ran
    /\ \E k \in CacheKeys :
          /\ \E i \in 1..Len(lastEvict.heap) :
                /\ lastEvict.heap[i].key = k
                /\ lastEvict.heap[i].expiresAt <= lastEvict.at
          /\ lastEvict.before[k].present
          /\ lastEvict.before[k].expiresAt > lastEvict.at
          /\ Got(k) = lastEvict.before[k]

\* The key of the latest set that stored: the last record pushed on the heap.
LastSetKey == expirationHeap[Len(expirationHeap)].key

\* C40, as stated: a set under a key already present in a full cache leaves
\* every other entry that has not expired in the cache.
C40_OverwriteEvictsNoOther ==
    (lastEvict.ran /\ lastEvict.before[LastSetKey].present) =>
        \A k \in CacheKeys \ {LastSetKey} :
            (lastEvict.before[k].present /\ lastEvict.before[k].expiresAt > lastEvict.at)
                => cache[k].present

(***************************************************************************)
(* Claims checked under SpecStream                                         *)
(***************************************************************************)

IsEvent(x) == x # "hb"
Events == SelectSeq(out, IsEvent)
Count(x) == Cardinality({i \in 1..Len(out) : out[i] = x})

\* C22: when the handler of a streaming request is over, the SSE head was
\* sent and the client is still connected, the last thing written is
\* data: [DONE], written once: after nothing but completion chunks on
\* success, after exactly one error event and nothing else on failure.
C22_StreamEndsWithDone ==
    (spc = "done" /\ sHeaders = "sse" /\ sconn) =>
        /\ out # <<>> /\ out[Len(out)] = "DONE"
        /\ Count("DONE") = 1
        /\ sResult = "success" =>
              /\ Count("error") = 0
              /\ \A i \in 1..(Len(Events) - 1) : Events[i] = "data"
        /\ sResult = "failure" => Events = <<"error", "DONE">>

C22_Witness ==
    /\ spc = "done" /\ sHeaders = "sse" /\ sconn
    /\ sResult = "failure"
    /\ sAborted
    /\ Events = <<"error", "DONE">>
    /\ Count("hb") > 1

\* C23: no upstream attempt starts before the SSE head is written, the
\* first thing a connected client is sent after the head is a heartbeat,
\* written in the step that writes the head, and every event follows it.
C23_HeartbeatBeforeAttempts ==
    /\ sAttempts > 0 => sHeaders = "sse"
    /\ (sHeaders = "sse" /\ sconn) => out # <<>>
    /\ (sHeaders = "sse" /\ out # <<>>) => out[1] = "hb"

C23_Witness ==
    /\ spc = "done" /\ sHeaders = "sse" /\ sconn
    /\ sResult = "success"
    /\ out[1] = "hb"
    /\ Count("data") > 0

\* C24: the ticker is stopped once the handler is over or the client has
\* disconnected, nothing is written after the client disconnected, and no
\* heartbeat follows data: [DONE].
C24_TickerStoppedInTerminalStates ==
    /\ (spc = "done" \/ ~sconn) => ~heartbeatInterval
    /\ ~sconn => Len(out) = lenAtClose
    /\ \A i, j \in 1..Len(out) : (out[i] = "DONE" /\ i < j) => out[j] # "hb"

\* The parts of C24 that hold: the ticker is stopped when the handler is
\* over, and writes stop with the connection and with the terminator.
C24_TickerStoppedWhenOver ==
    /\ spc = "done" => ~heartbeatInterval
    /\ ~sconn => Len(out) = lenAtClose
    /\ \A i, j \in 1..Len(out) : (out[i] = "DONE" /\ i < j) => out[j] # "hb"

(***************************************************************************)
(* Claims checked under SpecBalance                                        *)
(***************************************************************************)

\* C27: the first checkBalance() call after an invalidate() takes its
\* balance from an RPC read that was issued after that invalidate().
C27_FreshReadAfterInvalidate ==
    (lastCheck.called /\ lastCheck.afterInval) => lastCheck.read > lastCheck.mark

\* C28: a request that was downgraded to the free model leaves the cached
\* balance as it was when it ends.
C28_DowngradedLeavesBalance ==
    (lastFinish.kind = "success" /\ lastFinish.downgraded) =>
        lastFinish.after = lastFinish.before

\* C28, the rest: a request that ends with the error response leaves the
\* cached balance as it was, and a success deducts nothing but the estimate.
C28_ErrorLeavesBalance ==
    /\ lastFinish.kind = "error" => lastFinish.after = lastFinish.before
    /\ lastFinish.kind = "success" =>
          lastFinish.after \in {lastFinish.before, lastFinish.before - lastFinish.est}

(***************************************************************************)
(* Claims checked under SpecSession                                        *)
(***************************************************************************)

\* C29 (as stated): a profile-routed request carrying a session id reuses
\* the pinned model without classification while the session is live, and
\* otherwise is classified and leaves the selected model pinned.
C29_SessionPinAnyRequest ==
    (lastRoute.kind = "routed" /\ lastRoute.sid # NoSessionId) =>
        IF lastRoute.live
        THEN /\ ~lastRoute.classified
             /\ lastRoute.model = lastRoute.pinned
        ELSE /\ lastRoute.classified
             /\ lastRoute.model = lastRoute.routed
             /\ sessions[lastRoute.sid].model = lastRoute.routed

\* C29 (amended): with the session store enabled, a request routed by a
\* profile other than free and carrying a session id reuses the pinned
\* model without classification while the session is live (idle time not
\* above the timeout), and otherwise is classified and leaves the selected
\* model pinned; a reuse keeps the pin.
C29_SessionPin ==
    (/\ lastRoute.kind = "routed"
     /\ lastRoute.sid # NoSessionId
     /\ sessEnabled
     /\ lastRoute.profile # "free") =>
        IF lastRoute.live
        THEN /\ ~lastRoute.classified
             /\ lastRoute.model = lastRoute.pinned
             /\ sessions[lastRoute.sid].model = lastRoute.pinned
        ELSE /\ lastRoute.classified
             /\ lastRoute.model = lastRoute.routed
             /\ sessions[lastRoute.sid].model = lastRoute.routed

\* a live session at idle = timeoutMs was reused with a pin that differs
\* from what the classifier would have selected
C29_Witness ==
    /\ lastRoute.kind = "routed"
    /\ sessEnabled
    /\ lastRoute.profile # "free"
    /\ lastRoute.live
    /\ ~lastRoute.classified
    /\ lastRoute.model = lastRoute.pinned
    /\ lastRoute.pinned # lastRoute.routed
    /\ \E id \in SessionIds : id # lastRoute.sid /\ sessions[id] # NoSession

(***************************************************************************)
(* Claims checked under SpecListen                                         *)
(***************************************************************************)

UsableProbe(i) == checkExistingProxy(probes[i]) # NoWallet

\* C31: startProxy calls listen at most PORT_RETRY_ATTEMPTS times; it
\* returns the handle of an existing instance exactly when the latest
\* /health probe was answered by one, and then the latest listen, if any,
\* had failed with EADDRINUSE; every failed probe but the one after the last
\* attempt is followed by one delay and one more attempt; it throws
\* EADDRINUSE only after the last attempt; and it goes on as the listening
\* server only when its latest listen succeeded.
C31_AtMostFiveListenAttempts ==
    /\ Len(listens) <= PORT_RETRY_ATTEMPTS
    /\ \A i \in 1 .. Len(listens) - 1 : listens[i] = "EADDRINUSE"
    /\ \A i \in 1 .. Len(probes) - 1 : ~UsableProbe(i)
    /\ lResult.kind = "reuse" <=>
          (lpc = "done" /\ probes # <<>> /\ UsableProbe(Len(probes)))
    /\ lResult.kind = "reuse" =>
          /\ lResult.wallet = checkExistingProxy(probes[Len(probes)])
          /\ \A i \in 1 .. Len(listens) : listens[i] = "EADDRINUSE"
    /\ lpc = "listen" => (Len(listens) = waits /\ attempt = waits + 1)
    /\ lpc \in {"probe", "wait"} => (Len(listens) = waits + 1 /\ attempt = waits + 1)
    /\ lpc = "wait" => Len(listens) < PORT_RETRY_ATTEMPTS
    /\ lpc = "done" => waits = Len(listens) - (IF listens = <<>> THEN 0 ELSE 1)
    /\ lResult.kind = "throw" =>
          /\ lResult.error = listens[Len(listens)]
          /\ lResult.error = "EADDRINUSE" => Len(listens) = PORT_RETRY_ATTEMPTS
    /\ lResult.kind = "ready" => (listens # <<>> /\ listens[Len(listens)] = "listening")

\* the fifth attempt failed with the port in use and no instance answering
C31_Witness ==
    /\ lResult.kind = "throw"
    /\ lResult.error = "EADDRINUSE"
    /\ Len(listens) = PORT_RETRY_ATTEMPTS
    /\ waits = PORT_RETRY_ATTEMPTS - 1

(***************************************************************************)
(* Claims checked under SpecAlias                                          *)
(***************************************************************************)

\* C32: resolving a resolved model string gives the same string again.
C32_ResolveIsFixedPoint ==
    applied => returned.twice = returned.once

\* C32, where it holds: a string with at most one brand prefix directly
\* followed by a name, and not naming an inherited property, resolves to a
\* fixed point.
C32_FixedPointOnPlainStrings ==
    LET normalized == toLowerCase(trim(arg))
        name == IF normalized # <<>> /\ Head(normalized) = "blockrun/"
                THEN Tail(normalized) ELSE normalized
    IN  (/\ applied
         /\ name # <<>> => Head(name) \notin {" ", "blockrun/"}
         /\ name # <<"constructor">>) => returned.twice = returned.once

(***************************************************************************)
(* Claims checked under SpecCanon                                          *)
(***************************************************************************)

\* C33: the key of canon(x) equals the key of canon(canon(x)).
C33_CanonIdempotent ==
    applied => returned.twice = returned.once

\* C33, where it holds: a body in which no string under content begins
\* with two timestamps has the same key after a second canonicalization.
C33_IdempotentOnSingleTimestamps ==
    LET Single(str) == Len(str) >= 2 => ~(str[1] = TIMESTAMP /\ str[2] = TIMESTAMP)
    IN  (/\ applied
         /\ Single(arg.content)
         /\ \A i \in 1 .. Len(arg.messages) : Single(arg.messages[i].content))
            => returned.twice = returned.once

(***************************************************************************)
(* Claims checked under SpecSavings                                        *)
(***************************************************************************)

\* C34: a request routed under the auto profile to the SIMPLE tier's
\* primary model reports a savings ratio above one half.
C34_SimpleAutoSavesHalf ==
    (/\ applied
     /\ arg.profile = "auto"
     /\ arg.tier = "SIMPLE"
     /\ returned.model = tiers["SIMPLE"].primary)
        => 2 * returned.savings.num > returned.savings.den

\* C34, what is reported instead: the baseline cost and the savings of
\* every decision are zero.
C34_NoBaselineNoSavings ==
    applied => (returned.baselineCost = 0 /\ returned.savings.num = 0)

(***************************************************************************)
(* Properties of mixed streaming and non-streaming requests (SpecFormat)   *)
(***************************************************************************)

\* What request r asked for.
Requested(r) == IF isStreaming[r] THEN EventStream ELSE Json

\* C36, as stated: a request answered with a completion or an upstream error,
\* be it its own, a replay from the completed map or the result it waited
\* for, receives it in the format it asked for: an event stream if its body
\* had stream: true, the JSON body otherwise.
C36_ReplyInRequestedFormat ==
    \A r \in Reqs :
        (pc[r] = "done" /\ resp[r].kind \in {"completion", "upstream_error"})
            => ContentType(resp[r]) = Requested(r)

====
